---------------------------- MODULE Spec2Model ----------------------------
(***************************************************************************)
(* dockeryzer: the image-language classifier (DetectPrimaryLanguage and    *)
(* the per-runtime tier classifiers) and the CIS rule engine (CISAnalyzer  *)
(* and PrintCISResults).                                                   *)
(*                                                                         *)
(* A Go string is modelled as a sequence of one-character strings, so that *)
(* HasPrefix, TrimPrefix, Split, Contains, Fields, TrimSpace, ToUpper and  *)
(* Atoi are computed as the Go library computes them.  The grave accent,   *)
(* which a TLA+ string cannot hold, is the character written "grave".      *)
(***************************************************************************)
EXTENDS Integers, Sequences, FiniteSets, TLC

VARIABLES
    imageInspect,   \* the image.InspectResponse handed to DetectPrimaryLanguage
    lang,           \* *LanguageInfo: << >> is nil, <<r>> points to record r
    lpc,            \* position of PrintImageResults: "start" | "done" | "outdated" | "suggested"
    hasOutdatedLanguage,    \* PrintImageResults: what HasOutdatedLanguage returned
    languageSuggestions,    \* PrintImageResults: what GetLanguageImprovementSuggestions returned
    dockerfile,     \* content read by AnalyzeDockerfile
    dockerignore,   \* whether os.Stat(".dockerignore") succeeds
    results,        \* []CISResult built by CISAnalyzer.Analyze
    cpc,            \* position of AnalyzeDockerfile: "idle" | "analyze" | "print" | "done" | "panic"
    score,          \* PrintCISResults: number of passed results counted so far
    printed,        \* PrintCISResults: the lines printed for failed results
    percent,        \* PrintCISResults: the printed security score, -1 before it is printed
    image1Inspect,  \* PrintImageCompareLanguageResults: the first image's inspection
    image2Inspect,  \* PrintImageCompareLanguageResults: the second image's inspection
    compared,       \* PrintImageCompareLanguageResults: the pieces of the printed line
    mpc,            \* position of the comparison: "idle" | "start" | "done"
    project,        \* the project directory DetectProject looks at: extension counts, files, contents
    apiKey,         \* the API key handed to DetectProjectSmart
    tech,           \* *ProjectTechnology being filled
    heuristic,      \* the ProjectTechnology as DetectProject returned it
    llmCalls,       \* number of calls of provider.GenerateContent by DetectProjectWithAI
    llmOutcome,     \* what the LLM collaborator did when it was asked, << >> before
    jpc,            \* position of DetectProjectSmart: "idle" | "start" | "language" | "configs" | "heuristic" | "done"
    useLangChain,   \* Create: the flag choosing CreateDockerfileWithLangChain
    created,        \* the file Dockeryzer.Dockerfile: << >> is absent, <<c>> holds content c
    fatal,          \* the message of the log.Fatal that ended the process, << >> if none
    genOutcome,     \* what the LLM collaborator did when asked for the Dockerfile, << >> before
    gpc,            \* position of Create: "idle" | "start" | "detect" | "done" | "fatal"
    providerConfig, \* the ProviderConfig handed to NewAIProvider
    provider,       \* (AIProvider, error) as NewAIProvider returned them, << >> before
    fpc,            \* position of the caller of NewAIProvider: "idle" | "start" | "done"
    analyzed,       \* AIAnalyzer.CompareImages: the two images, each with its name
    contexts,       \* AIAnalyzer.CompareImages: the image contexts built so far
    comparison,     \* AIAnalyzer.CompareImages: what the LLM collaborator did, << >> before
    apc             \* position of CompareImages: "idle" | "start" | "context1" | "prompt" | "done"

langVars == <<imageInspect, lang, lpc, hasOutdatedLanguage, languageSuggestions>>
cisVars == <<dockerfile, dockerignore, results, cpc, score, printed, percent>>
cmpVars == <<image1Inspect, image2Inspect, compared, mpc>>
\* the components besides the language analysis and the CIS analysis
projVars == <<project, apiKey, tech, heuristic, llmCalls, llmOutcome, jpc>>
genVars == <<useLangChain, created, fatal, genOutcome, gpc>>
facVars == <<providerConfig, provider, fpc>>
aiVars == <<analyzed, contexts, comparison, apc>>
extraVars == <<cmpVars, projVars, genVars, facVars, aiVars>>
vars == <<langVars, cisVars, extraVars>>

----------------------------------------------------------------------------
(* Bounds of the model.                                                    *)

\* largest major version number of a generated version string
MaxMajor == 18
\* largest minor version number of a generated version string
MaxMinor == 20
\* longest environment list built from EnvCatalog
MaxEnv == 2
\* largest number of files counted for one extension
MaxFiles == 2
\* largest number of lines of a generated Dockerfile
MaxLines == 2

----------------------------------------------------------------------------
(* Go's strings and strconv packages on sequences of characters.           *)

HasPrefix(s, prefix) ==
    Len(s) >= Len(prefix) /\ SubSeq(s, 1, Len(prefix)) = prefix

HasSuffix(s, suffix) ==
    Len(s) >= Len(suffix) /\ SubSeq(s, Len(s) - Len(suffix) + 1, Len(s)) = suffix

TrimPrefix(s, prefix) ==
    IF HasPrefix(s, prefix) THEN SubSeq(s, Len(prefix) + 1, Len(s)) ELSE s

\* strings.Index, 1-based; 0 when substr does not occur
Index(s, substr) ==
    LET at == {i \in 1..(Len(s) - Len(substr) + 1) : SubSeq(s, i, i + Len(substr) - 1) = substr}
    IN  IF at = {} THEN 0 ELSE CHOOSE i \in at : \A j \in at : i <= j

Contains(s, substr) == Index(s, substr) # 0

RECURSIVE Split(_, _)
Split(s, sep) ==
    LET i == Index(s, sep)
    IN  IF i = 0 THEN <<s>>
        ELSE <<SubSeq(s, 1, i - 1)>> \o Split(SubSeq(s, i + Len(sep), Len(s)), sep)

RECURSIVE Join(_, _)
Join(elems, sep) ==
    IF elems = << >> THEN << >>
    ELSE IF Len(elems) = 1 THEN elems[1]
    ELSE elems[1] \o sep \o Join(Tail(elems), sep)

Lowers == <<"a","b","c","d","e","f","g","h","i","j","k","l","m",
            "n","o","p","q","r","s","t","u","v","w","x","y","z">>
Uppers == <<"A","B","C","D","E","F","G","H","I","J","K","L","M",
            "N","O","P","Q","R","S","T","U","V","W","X","Y","Z">>

ToUpper(s) ==
    [i \in 1..Len(s) |->
        IF \E k \in 1..26 : Lowers[k] = s[i]
        THEN Uppers[CHOOSE k \in 1..26 : Lowers[k] = s[i]] ELSE s[i]]

ToLower(s) ==
    [i \in 1..Len(s) |->
        IF \E k \in 1..26 : Uppers[k] = s[i]
        THEN Lowers[CHOOSE k \in 1..26 : Uppers[k] = s[i]] ELSE s[i]]

\* unicode.IsSpace on the characters a Dockerfile holds
IsSpace(c) == c \in {" ", "\t", "\n", "\r", "\f"}

TrimSpace(s) ==
    LET keep == {i \in 1..Len(s) : ~IsSpace(s[i])}
    IN  IF keep = {} THEN << >>
        ELSE SubSeq(s, CHOOSE i \in keep : \A j \in keep : i <= j,
                       CHOOSE i \in keep : \A j \in keep : i >= j)

\* strings.Fields: the maximal runs of non-space characters
RECURSIVE Fields(_)
Fields(s) ==
    LET keep == {i \in 1..Len(s) : ~IsSpace(s[i])}
    IN  IF keep = {} THEN << >>
        ELSE LET b == CHOOSE i \in keep : \A j \in keep : i <= j
                 after == {i \in b..Len(s) : IsSpace(s[i])}
                 e == IF after = {} THEN Len(s) + 1
                      ELSE CHOOSE i \in after : \A j \in after : i <= j
             IN  <<SubSeq(s, b, e - 1)>> \o Fields(SubSeq(s, e, Len(s)))

Digits == <<"0","1","2","3","4","5","6","7","8","9">>

IsDigit(c) == \E d \in 1..10 : Digits[d] = c

DigitVal(c) == (CHOOSE d \in 1..10 : Digits[d] = c) - 1

RECURSIVE ParseDigits(_)
ParseDigits(s) ==
    IF s = << >> THEN 0
    ELSE ParseDigits(SubSeq(s, 1, Len(s) - 1)) * 10 + DigitVal(s[Len(s)])

\* strconv.Atoi: an optional sign, then one or more decimal digits.  The
\* strings of the model are short of the 19 digits at which Atoi reports a
\* range error.
Atoi(s) ==
    LET signed == s # << >> /\ s[1] \in {"+", "-"}
        body == IF signed THEN Tail(s) ELSE s
    IN  IF body = << >> \/ \E i \in 1..Len(body) : ~IsDigit(body[i])
        THEN [num |-> 0, err |-> TRUE]
        ELSE [num |-> IF s[1] = "-" THEN 0 - ParseDigits(body) ELSE ParseDigits(body),
              err |-> FALSE]

\* strconv.Itoa for 0..99, used to write the version strings of the inputs
Itoa(n) ==
    IF n < 10 THEN <<Digits[n + 1]>>
    ELSE <<Digits[(n \div 10) + 1], Digits[(n % 10) + 1]>>

----------------------------------------------------------------------------
(* utils: version parsing and the per-runtime tier classifiers.            *)

\* a parser that reads the leading digits of the token, as C's atoi does
getMajorVersionLeadingDigits(version) ==
    LET first == Split(version, <<".">>)[1]
        stop == {i \in 1..Len(first) : ~IsDigit(first[i])}
        n == IF stop = {} THEN Len(first) ELSE (CHOOSE i \in stop : \A j \in stop : i <= j) - 1
    IN  ParseDigits(SubSeq(first, 1, n))

getMajorVersion(version) ==
    LET parts == Split(version, <<".">>)
        n == Atoi(parts[1])
    IN  IF Len(parts) = 0 THEN 0
        ELSE IF n.err THEN 0 ELSE n.num

getMinorVersion(version) ==
    LET parts == Split(version, <<".">>)
    IN  IF Len(parts) < 2 THEN 0
        ELSE IF Atoi(parts[2]).err THEN 0 ELSE Atoi(parts[2]).num

\* the lower threshold taken inclusively
getNodeJSColorOffByOne(version) ==
    IF version = <<"d","e","t","e","c","t","e","d">> \/ version = <<"u","n","k","n","o","w","n">> THEN "warning"
    ELSE LET major == getMajorVersion(version)
         IN  IF major <= 14 THEN "error"
             ELSE IF major <= 16 THEN "warning"
             ELSE "success"

\* the thresholds applied without the sentinel check
getNodeJSColorNoSentinel(version) ==
    LET major == getMajorVersion(version)
    IN  IF major < 14 THEN "error"
        ELSE IF major >= 14 /\ major <= 16 THEN "warning"
        ELSE "success"

getNodeJSColor(version) ==
    IF version = <<"d","e","t","e","c","t","e","d">> \/ version = <<"u","n","k","n","o","w","n">> THEN "warning"
    ELSE LET major == getMajorVersion(version)
         IN  IF major < 14 THEN "error"
             ELSE IF major >= 14 /\ major <= 16 THEN "warning"
             ELSE "success"

\* the minor threshold applied to every major from 3 on
getPythonColorMinorOnly(version) ==
    IF version = <<"d","e","t","e","c","t","e","d">> \/ version = <<"u","n","k","n","o","w","n">> THEN "warning"
    ELSE LET major == getMajorVersion(version)
         IN  IF major < 3 THEN "error"
             ELSE IF getMinorVersion(version) < 8 THEN "warning"
             ELSE "success"

getPythonColor(version) ==
    IF version = <<"d","e","t","e","c","t","e","d">> \/ version = <<"u","n","k","n","o","w","n">> THEN "warning"
    ELSE LET major == getMajorVersion(version)
         IN  IF major < 3 THEN "error"
             ELSE IF major = 3 /\ getMinorVersion(version) < 8 THEN "warning"
             ELSE "success"

getJavaColor(version) ==
    IF version = <<"d","e","t","e","c","t","e","d">> \/ version = <<"u","n","k","n","o","w","n">> THEN "warning"
    ELSE LET major == getMajorVersion(version)
         IN  IF major < 11 THEN "error"
             ELSE IF major >= 11 /\ major < 17 THEN "warning"
             ELSE "success"

getGoColor(version) ==
    IF version = <<"d","e","t","e","c","t","e","d">> \/ version = <<"u","n","k","n","o","w","n">> \/ version = <<"c","o","m","p","i","l","e","d">> THEN "success"
    ELSE LET major == getMajorVersion(version)
             minor == getMinorVersion(version)
         IN  IF major < 1 THEN "error"
             ELSE IF major = 1 /\ minor < 19 THEN "warning"
             ELSE "success"

getPHPColor(version) ==
    IF version = <<"d","e","t","e","c","t","e","d">> \/ version = <<"u","n","k","n","o","w","n">> THEN "warning"
    ELSE LET major == getMajorVersion(version)
         IN  IF major < 7 THEN "error"
             ELSE IF major = 7 THEN "warning"
             ELSE "success"

getRubyColor(version) ==
    IF version = <<"d","e","t","e","c","t","e","d">> \/ version = <<"u","n","k","n","o","w","n">> THEN "warning"
    ELSE LET major == getMajorVersion(version)
         IN  IF major < 2 THEN "error"
             ELSE IF major = 2 THEN "warning"
             ELSE "success"

getDotNetColor(version) ==
    IF version = <<"d","e","t","e","c","t","e","d">> \/ version = <<"u","n","k","n","o","w","n">> THEN "warning"
    ELSE LET major == getMajorVersion(version)
         IN  IF major < 6 THEN "warning"
             ELSE "success"

----------------------------------------------------------------------------
(* utils: the environment detectors.  Each returns the version string, or  *)
(* the empty string when the runtime is not found.                         *)

\* the least of the indices `at` at which a list satisfies a test, 0 when there
\* is none: the element at which a `for ... range` loop with an early return stops
FirstIndex(at) ==
    IF at = {} THEN 0 ELSE CHOOSE i \in at : \A j \in at : i <= j

detectNodeJSVersion(envVars) ==
    LET Hit(envVar) == HasPrefix(envVar, <<"N","O","D","E","_","V","E","R","S","I","O","N","=">>)
        i == FirstIndex({k \in 1..Len(envVars) : Hit(envVars[k])})
    IN  IF i = 0 THEN << >> ELSE TrimPrefix(envVars[i], <<"N","O","D","E","_","V","E","R","S","I","O","N","=">>)

detectPythonVersion(envVars) ==
    LET Hit(envVar) == HasPrefix(envVar, <<"P","Y","T","H","O","N","_","V","E","R","S","I","O","N","=">>)
        i == FirstIndex({k \in 1..Len(envVars) : Hit(envVars[k])})
    IN  IF i = 0 THEN << >> ELSE TrimPrefix(envVars[i], <<"P","Y","T","H","O","N","_","V","E","R","S","I","O","N","=">>)

detectJavaVersion(envVars) ==
    LET Hit(envVar) == HasPrefix(envVar, <<"J","A","V","A","_","V","E","R","S","I","O","N","=">>) \/ HasPrefix(envVar, <<"J","A","V","A","_","H","O","M","E","=">>)
        i == FirstIndex({k \in 1..Len(envVars) : Hit(envVars[k])})
        path == TrimPrefix(envVars[i], <<"J","A","V","A","_","H","O","M","E","=">>)
        parts == Split(path, <<"j","a","v","a","-">>)
    IN  IF i = 0 THEN << >>
        ELSE IF HasPrefix(envVars[i], <<"J","A","V","A","_","V","E","R","S","I","O","N","=">>)
             THEN TrimPrefix(envVars[i], <<"J","A","V","A","_","V","E","R","S","I","O","N","=">>)
        ELSE IF Contains(path, <<"j","a","v","a","-">>) /\ Len(parts) > 1
             THEN Split(parts[2], <<"/">>)[1]
        ELSE <<"d","e","t","e","c","t","e","d">>

\* one loop over the three variables, as detectRustVersion does
detectGoVersionSingleLoop(envVars) ==
    LET Hit(envVar) == \/ HasPrefix(envVar, <<"G","O","L","A","N","G","_","V","E","R","S","I","O","N","=">>) \/ HasPrefix(envVar, <<"G","O","_","V","E","R","S","I","O","N","=">>)
                       \/ HasPrefix(envVar, <<"G","O","P","A","T","H","=">>)
        i == FirstIndex({k \in 1..Len(envVars) : Hit(envVars[k])})
    IN  IF i = 0 THEN << >>
        ELSE IF HasPrefix(envVars[i], <<"G","O","L","A","N","G","_","V","E","R","S","I","O","N","=">>)
             THEN TrimPrefix(envVars[i], <<"G","O","L","A","N","G","_","V","E","R","S","I","O","N","=">>)
        ELSE IF HasPrefix(envVars[i], <<"G","O","_","V","E","R","S","I","O","N","=">>)
             THEN TrimPrefix(envVars[i], <<"G","O","_","V","E","R","S","I","O","N","=">>)
        ELSE <<"d","e","t","e","c","t","e","d">>

detectGoVersion(envVars) ==
    LET Explicit(envVar) == HasPrefix(envVar, <<"G","O","L","A","N","G","_","V","E","R","S","I","O","N","=">>) \/ HasPrefix(envVar, <<"G","O","_","V","E","R","S","I","O","N","=">>)
        Path(envVar) == HasPrefix(envVar, <<"G","O","P","A","T","H","=">>)
        i == FirstIndex({k \in 1..Len(envVars) : Explicit(envVars[k])})
    IN  IF i # 0
        THEN IF HasPrefix(envVars[i], <<"G","O","L","A","N","G","_","V","E","R","S","I","O","N","=">>)
             THEN TrimPrefix(envVars[i], <<"G","O","L","A","N","G","_","V","E","R","S","I","O","N","=">>)
             ELSE TrimPrefix(envVars[i], <<"G","O","_","V","E","R","S","I","O","N","=">>)
        ELSE IF FirstIndex({k \in 1..Len(envVars) : Path(envVars[k])}) # 0 THEN <<"d","e","t","e","c","t","e","d">>
        ELSE << >>

detectPHPVersion(envVars) ==
    LET Hit(envVar) == HasPrefix(envVar, <<"P","H","P","_","V","E","R","S","I","O","N","=">>)
        i == FirstIndex({k \in 1..Len(envVars) : Hit(envVars[k])})
    IN  IF i = 0 THEN << >> ELSE TrimPrefix(envVars[i], <<"P","H","P","_","V","E","R","S","I","O","N","=">>)

detectRubyVersion(envVars) ==
    LET Hit(envVar) == HasPrefix(envVar, <<"R","U","B","Y","_","V","E","R","S","I","O","N","=">>)
        i == FirstIndex({k \in 1..Len(envVars) : Hit(envVars[k])})
    IN  IF i = 0 THEN << >> ELSE TrimPrefix(envVars[i], <<"R","U","B","Y","_","V","E","R","S","I","O","N","=">>)

detectDotNetVersion(envVars) ==
    LET Hit(envVar) == HasPrefix(envVar, <<"D","O","T","N","E","T","_","V","E","R","S","I","O","N","=">>) \/ HasPrefix(envVar, <<"A","S","P","N","E","T","C","O","R","E","_","V","E","R","S","I","O","N","=">>)
        i == FirstIndex({k \in 1..Len(envVars) : Hit(envVars[k])})
    IN  IF i = 0 THEN << >>
        ELSE IF HasPrefix(envVars[i], <<"D","O","T","N","E","T","_","V","E","R","S","I","O","N","=">>)
             THEN TrimPrefix(envVars[i], <<"D","O","T","N","E","T","_","V","E","R","S","I","O","N","=">>)
             ELSE TrimPrefix(envVars[i], <<"A","S","P","N","E","T","C","O","R","E","_","V","E","R","S","I","O","N","=">>)

detectRustVersion(envVars) ==
    LET Hit(envVar) == HasPrefix(envVar, <<"R","U","S","T","_","V","E","R","S","I","O","N","=">>) \/ HasPrefix(envVar, <<"C","A","R","G","O","_","H","O","M","E","=">>)
        i == FirstIndex({k \in 1..Len(envVars) : Hit(envVars[k])})
    IN  IF i = 0 THEN << >>
        ELSE IF HasPrefix(envVars[i], <<"R","U","S","T","_","V","E","R","S","I","O","N","=">>)
             THEN TrimPrefix(envVars[i], <<"R","U","S","T","_","V","E","R","S","I","O","N","=">>)
             ELSE <<"d","e","t","e","c","t","e","d">>

LanguageInfo(name, version, color) == [Name |-> name, Version |-> version, Color |-> color]

\* detectByCommand reporting an empty version instead of "unknown"
detectByCommandNoVersion(cmd, entrypoint) ==
    LET allCommands == entrypoint \o cmd
        commandStr == Join(allCommands, <<" ">>)
    IN  IF Contains(commandStr, <<"n","o","d","e">>) \/ Contains(commandStr, <<"n","p","m">>)
        THEN <<LanguageInfo("Node.js", <<>>, "warning")>>
        ELSE IF Contains(commandStr, <<"p","y","t","h","o","n">>)
        THEN <<LanguageInfo("Python", <<>>, "warning")>>
        ELSE << >>

\* detectByCommand looking for python before node and npm
detectByCommandPythonFirst(cmd, entrypoint) ==
    LET allCommands == entrypoint \o cmd
        commandStr == Join(allCommands, <<" ">>)
    IN  IF Contains(commandStr, <<"p","y","t","h","o","n">>)
        THEN <<LanguageInfo("Python", <<"u","n","k","n","o","w","n">>, "warning")>>
        ELSE IF Contains(commandStr, <<"n","o","d","e">>) \/ Contains(commandStr, <<"n","p","m">>)
        THEN <<LanguageInfo("Node.js", <<"u","n","k","n","o","w","n">>, "warning")>>
        ELSE IF Contains(commandStr, <<"j","a","v","a"," ","-","j","a","r">>) \/ Contains(commandStr, <<"j","a","v","a"," ">>)
        THEN <<LanguageInfo("Java", <<"u","n","k","n","o","w","n">>, "warning")>>
        ELSE IF Contains(commandStr, <<"p","h","p">>)
        THEN <<LanguageInfo("PHP", <<"u","n","k","n","o","w","n">>, "warning")>>
        ELSE IF Contains(commandStr, <<"r","u","b","y">>)
        THEN <<LanguageInfo("Ruby", <<"u","n","k","n","o","w","n">>, "warning")>>
        ELSE IF Contains(commandStr, <<"d","o","t","n","e","t">>)
        THEN <<LanguageInfo(".NET", <<"u","n","k","n","o","w","n">>, "warning")>>
        ELSE << >>

detectByCommand(cmd, entrypoint) ==
    LET allCommands == entrypoint \o cmd
        commandStr == Join(allCommands, <<" ">>)
    IN  IF Contains(commandStr, <<"n","o","d","e">>) \/ Contains(commandStr, <<"n","p","m">>)
        THEN <<LanguageInfo("Node.js", <<"u","n","k","n","o","w","n">>, "warning")>>
        ELSE IF Contains(commandStr, <<"p","y","t","h","o","n">>)
        THEN <<LanguageInfo("Python", <<"u","n","k","n","o","w","n">>, "warning")>>
        ELSE IF Contains(commandStr, <<"j","a","v","a"," ","-","j","a","r">>) \/ Contains(commandStr, <<"j","a","v","a"," ">>)
        THEN <<LanguageInfo("Java", <<"u","n","k","n","o","w","n">>, "warning")>>
        ELSE IF Contains(commandStr, <<"p","h","p">>)
        THEN <<LanguageInfo("PHP", <<"u","n","k","n","o","w","n">>, "warning")>>
        ELSE IF Contains(commandStr, <<"r","u","b","y">>)
        THEN <<LanguageInfo("Ruby", <<"u","n","k","n","o","w","n">>, "warning")>>
        ELSE IF Contains(commandStr, <<"d","o","t","n","e","t">>)
        THEN <<LanguageInfo(".NET", <<"u","n","k","n","o","w","n">>, "warning")>>
        ELSE << >>

\* 1024 * 1024: sizeInMB = imageSize / MiB, compared without the division
MiB == 1048576

\* the heuristic with the 20 MB limit included
detectCompiledBinaryUpTo20(entrypoint, cmd, workingDir, imageSize) ==
    IF Len(entrypoint) > 0
    THEN LET binary == entrypoint[1]
             isLikelyGoBinary ==
                 /\ (HasPrefix(binary, <<"/","a","p","p","/">>) \/ HasPrefix(binary, <<"/","u","s","r","/","l","o","c","a","l","/","b","i","n","/">>)
                        \/ HasPrefix(binary, <<"/","b","i","n","/">>))
                 /\ ~HasSuffix(binary, <<".","s","h">>)
                 /\ ~Contains(binary, <<"p","y","t","h","o","n">>)
                 /\ ~Contains(binary, <<"n","o","d","e">>)
                 /\ ~Contains(binary, <<"j","a","v","a">>)
                 /\ ~Contains(binary, <<"r","u","b","y">>)
                 /\ ~Contains(binary, <<"p","h","p">>)
             hasGoWorkingDir == workingDir = <<"/","a","p","p">> \/ workingDir = <<"/","g","o","/","s","r","c","/","a","p","p">>
             isSmallImage == imageSize > 5 * MiB /\ imageSize < 100 * MiB
         IN  IF isLikelyGoBinary /\ (hasGoWorkingDir \/ isSmallImage)
             THEN IF imageSize <= 20 * MiB
                  THEN <<LanguageInfo("Go", <<"c","o","m","p","i","l","e","d">>, "success")>>
                  ELSE IF hasGoWorkingDir /\ isSmallImage
                  THEN <<LanguageInfo("Go", <<"c","o","m","p","i","l","e","d">>, "success")>>
                  ELSE << >>
             ELSE << >>
    ELSE << >>

\* the heuristic skipping the test of the .sh suffix
detectCompiledBinaryAnySuffix(entrypoint, cmd, workingDir, imageSize) ==
    IF Len(entrypoint) > 0
    THEN LET binary == entrypoint[1]
             isLikelyGoBinary ==
                 /\ (HasPrefix(binary, <<"/","a","p","p","/">>) \/ HasPrefix(binary, <<"/","u","s","r","/","l","o","c","a","l","/","b","i","n","/">>)
                        \/ HasPrefix(binary, <<"/","b","i","n","/">>))
                 /\ ~Contains(binary, <<"p","y","t","h","o","n">>)
                 /\ ~Contains(binary, <<"n","o","d","e">>)
                 /\ ~Contains(binary, <<"j","a","v","a">>)
                 /\ ~Contains(binary, <<"r","u","b","y">>)
                 /\ ~Contains(binary, <<"p","h","p">>)
             hasGoWorkingDir == workingDir = <<"/","a","p","p">> \/ workingDir = <<"/","g","o","/","s","r","c","/","a","p","p">>
             isSmallImage == imageSize > 5 * MiB /\ imageSize < 100 * MiB
         IN  IF isLikelyGoBinary /\ (hasGoWorkingDir \/ isSmallImage)
             THEN IF imageSize < 20 * MiB
                  THEN <<LanguageInfo("Go", <<"c","o","m","p","i","l","e","d">>, "success")>>
                  ELSE IF hasGoWorkingDir /\ isSmallImage
                  THEN <<LanguageInfo("Go", <<"c","o","m","p","i","l","e","d">>, "success")>>
                  ELSE << >>
             ELSE << >>
    ELSE << >>

detectCompiledBinary(entrypoint, cmd, workingDir, imageSize) ==
    IF Len(entrypoint) > 0
    THEN LET binary == entrypoint[1]
             isLikelyGoBinary ==
                 /\ (HasPrefix(binary, <<"/","a","p","p","/">>) \/ HasPrefix(binary, <<"/","u","s","r","/","l","o","c","a","l","/","b","i","n","/">>)
                        \/ HasPrefix(binary, <<"/","b","i","n","/">>))
                 /\ ~HasSuffix(binary, <<".","s","h">>)
                 /\ ~Contains(binary, <<"p","y","t","h","o","n">>)
                 /\ ~Contains(binary, <<"n","o","d","e">>)
                 /\ ~Contains(binary, <<"j","a","v","a">>)
                 /\ ~Contains(binary, <<"r","u","b","y">>)
                 /\ ~Contains(binary, <<"p","h","p">>)
             hasGoWorkingDir == workingDir = <<"/","a","p","p">> \/ workingDir = <<"/","g","o","/","s","r","c","/","a","p","p">>
             isSmallImage == imageSize > 5 * MiB /\ imageSize < 100 * MiB
         IN  IF isLikelyGoBinary /\ (hasGoWorkingDir \/ isSmallImage)
             THEN IF imageSize < 20 * MiB
                  THEN <<LanguageInfo("Go", <<"c","o","m","p","i","l","e","d">>, "success")>>
                  ELSE IF hasGoWorkingDir /\ isSmallImage
                  THEN <<LanguageInfo("Go", <<"c","o","m","p","i","l","e","d">>, "success")>>
                  ELSE << >>
             ELSE << >>
    ELSE << >>

\* the cascade with the Go detector moved in front of the Node.js detector
DetectPrimaryLanguageGoFirst(img) ==
    LET envVars == img.Env
        cmd == img.Cmd
        entrypoint == img.Entrypoint
        workingDir == img.WorkingDir
    IN  IF detectGoVersion(envVars) # << >>
        THEN <<LanguageInfo("Go", detectGoVersion(envVars),
                            getGoColor(detectGoVersion(envVars)))>>
        ELSE IF detectNodeJSVersion(envVars) # << >>
        THEN <<LanguageInfo("Node.js", detectNodeJSVersion(envVars),
                            getNodeJSColor(detectNodeJSVersion(envVars)))>>
        ELSE IF detectPythonVersion(envVars) # << >>
        THEN <<LanguageInfo("Python", detectPythonVersion(envVars),
                            getPythonColor(detectPythonVersion(envVars)))>>
        ELSE IF detectJavaVersion(envVars) # << >>
        THEN <<LanguageInfo("Java", detectJavaVersion(envVars),
                            getJavaColor(detectJavaVersion(envVars)))>>
        ELSE IF detectGoVersion(envVars) # << >>
        THEN <<LanguageInfo("Go", detectGoVersion(envVars),
                            getGoColor(detectGoVersion(envVars)))>>
        ELSE IF detectPHPVersion(envVars) # << >>
        THEN <<LanguageInfo("PHP", detectPHPVersion(envVars),
                            getPHPColor(detectPHPVersion(envVars)))>>
        ELSE IF detectRubyVersion(envVars) # << >>
        THEN <<LanguageInfo("Ruby", detectRubyVersion(envVars),
                            getRubyColor(detectRubyVersion(envVars)))>>
        ELSE IF detectDotNetVersion(envVars) # << >>
        THEN <<LanguageInfo(".NET", detectDotNetVersion(envVars),
                            getDotNetColor(detectDotNetVersion(envVars)))>>
        ELSE IF detectRustVersion(envVars) # << >>
        THEN <<LanguageInfo("Rust", detectRustVersion(envVars), "success")>>
        ELSE IF detectByCommand(cmd, entrypoint) # << >>
        THEN detectByCommand(cmd, entrypoint)
        ELSE IF detectCompiledBinary(entrypoint, cmd, workingDir, img.Size) # << >>
        THEN detectCompiledBinary(entrypoint, cmd, workingDir, img.Size)
        ELSE << >>

DetectPrimaryLanguage(img) ==
    LET envVars == img.Env
        cmd == img.Cmd
        entrypoint == img.Entrypoint
        workingDir == img.WorkingDir
    IN  IF detectNodeJSVersion(envVars) # << >>
        THEN <<LanguageInfo("Node.js", detectNodeJSVersion(envVars),
                            getNodeJSColor(detectNodeJSVersion(envVars)))>>
        ELSE IF detectPythonVersion(envVars) # << >>
        THEN <<LanguageInfo("Python", detectPythonVersion(envVars),
                            getPythonColor(detectPythonVersion(envVars)))>>
        ELSE IF detectJavaVersion(envVars) # << >>
        THEN <<LanguageInfo("Java", detectJavaVersion(envVars),
                            getJavaColor(detectJavaVersion(envVars)))>>
        ELSE IF detectGoVersion(envVars) # << >>
        THEN <<LanguageInfo("Go", detectGoVersion(envVars),
                            getGoColor(detectGoVersion(envVars)))>>
        ELSE IF detectPHPVersion(envVars) # << >>
        THEN <<LanguageInfo("PHP", detectPHPVersion(envVars),
                            getPHPColor(detectPHPVersion(envVars)))>>
        ELSE IF detectRubyVersion(envVars) # << >>
        THEN <<LanguageInfo("Ruby", detectRubyVersion(envVars),
                            getRubyColor(detectRubyVersion(envVars)))>>
        ELSE IF detectDotNetVersion(envVars) # << >>
        THEN <<LanguageInfo(".NET", detectDotNetVersion(envVars),
                            getDotNetColor(detectDotNetVersion(envVars)))>>
        ELSE IF detectRustVersion(envVars) # << >>
        THEN <<LanguageInfo("Rust", detectRustVersion(envVars), "success")>>
        ELSE IF detectByCommand(cmd, entrypoint) # << >>
        THEN detectByCommand(cmd, entrypoint)
        ELSE IF detectCompiledBinary(entrypoint, cmd, workingDir, img.Size) # << >>
        THEN detectCompiledBinary(entrypoint, cmd, workingDir, img.Size)
        ELSE << >>

\* HasOutdatedLanguage answering for the lowest tier only
HasOutdatedLanguageErrorOnly(img) ==
    LET l == DetectPrimaryLanguage(img)
    IN  IF l = << >> THEN FALSE
        ELSE l[1].Color = "error"

HasOutdatedLanguage(img) ==
    LET l == DetectPrimaryLanguage(img)
    IN  IF l = << >> THEN FALSE
        ELSE l[1].Color = "error" \/ l[1].Color = "warning"

\* fmt.Sprintf of the three formats: the literal pieces around the two %s
SuggestOutdated(name, version) ==
    <<"  - ", name, " version ", version,
      " is outdated and may have security vulnerabilities. Consider upgrading to a newer version.">>

SuggestUndetermined(name) ==
    <<"  - ", name,
      " runtime detected but version could not be determined. Consider using official base images with explicit version tags.">>

SuggestEndOfLife(name, version) ==
    <<"  - ", name, " version ", version,
      " is approaching end-of-life. Consider upgrading to ensure continued support.">>

GetLanguageImprovementSuggestions(img) ==
    LET l == DetectPrimaryLanguage(img)
        suggestions == << >>
    IN  IF l = << >> THEN suggestions
        ELSE IF l[1].Color = "error"
        THEN Append(suggestions, SuggestOutdated(l[1].Name, l[1].Version))
        ELSE IF l[1].Color = "warning"
        THEN IF l[1].Version = <<"u","n","k","n","o","w","n">>
             THEN Append(suggestions, SuggestUndetermined(l[1].Name))
             ELSE Append(suggestions, SuggestEndOfLife(l[1].Name, l[1].Version))
        ELSE suggestions

----------------------------------------------------------------------------
(* The image-inspection records the language analysis is run on.           *)

Sentinels == {<<"d","e","t","e","c","t","e","d">>, <<"u","n","k","n","o","w","n">>, <<"c","o","m","p","i","l","e","d">>}

\* "M", "M.m" and "M.m.0" for every major and minor within the bounds
NumericVersions ==
    {Itoa(M) : M \in 0..MaxMajor}
        \cup {Itoa(M) \o <<".">> \o Itoa(m) : M \in 0..MaxMajor, m \in 0..MaxMinor}
        \cup {Itoa(M) \o <<".">> \o Itoa(m) \o <<".","0">> : M \in 0..MaxMajor, m \in 0..MaxMinor}

\* version strings whose first dot-separated token is not an integer, or
\* whose second one is not
MalformedVersions ==
    {<<"i","n","v","a","l","i","d">>, <<"1","7","-","o","p","e","n","j","d","k">>, <<"v","1","8",".","0",".","0">>, <<"1","8","-","a","l","p","i","n","e">>, <<"l","a","t","e","s","t">>, <<".","5">>, <<"l","t","s","/","h","y","d","r","o","g","e","n">>,
     <<"3",".","x">>, <<"1",".","2","1","r","c","2">>, <<"3",".">>, <<"1",".","1","9","b","e","t","a","1",".","0">>}

\* the versions the tests use that are not of the forms above
TestVersions == {<<"2",".","7",".","1","8">>, <<"3",".","1","1",".","2">>, <<"1","8",".","1","7",".","0">>, <<"1","7",".","0",".","1">>, <<"1","1",".","0",".","1">>, <<"8",".","2",".","0">>, <<"1",".","7","0",".","0">>}

VersionStrings == NumericVersions \cup TestVersions \cup MalformedVersions \cup Sentinels \cup {<< >>}

\* the environment variables whose value is taken as the version
VersionKeys ==
    {<<"N","O","D","E","_","V","E","R","S","I","O","N","=">>, <<"P","Y","T","H","O","N","_","V","E","R","S","I","O","N","=">>, <<"J","A","V","A","_","V","E","R","S","I","O","N","=">>, <<"G","O","L","A","N","G","_","V","E","R","S","I","O","N","=">>, <<"G","O","_","V","E","R","S","I","O","N","=">>,
     <<"P","H","P","_","V","E","R","S","I","O","N","=">>, <<"R","U","B","Y","_","V","E","R","S","I","O","N","=">>, <<"D","O","T","N","E","T","_","V","E","R","S","I","O","N","=">>, <<"A","S","P","N","E","T","C","O","R","E","_","V","E","R","S","I","O","N","=">>,
     <<"R","U","S","T","_","V","E","R","S","I","O","N","=">>}

JavaHomes ==
    {<<"J","A","V","A","_","H","O","M","E","=","/","u","s","r","/","l","i","b","/","j","v","m","/","j","a","v","a","-","1","7","-","o","p","e","n","j","d","k">>, <<"J","A","V","A","_","H","O","M","E","=","/","u","s","r","/","l","i","b","/","j","v","m","/","j","a","v","a","-","1","1","-","o","p","e","n","j","d","k","-","a","m","d","6","4","/","j","r","e">>,
     <<"J","A","V","A","_","H","O","M","E","=","/","o","p","t","/","j","a","v","a","/","o","p","e","n","j","d","k">>, <<"J","A","V","A","_","H","O","M","E","=","/","u","s","r","/","l","i","b","/","j","v","m","/","j","a","v","a","-","8",".","0","/","b","i","n">>,
     <<"J","A","V","A","_","H","O","M","E","=","/","o","p","t","/","j","a","v","a","-","2","1","/","j","a","v","a","-","1","7">>, <<"J","A","V","A","_","H","O","M","E","=","/","o","p","t","/","j","a","v","a","-","/","b","i","n">>, <<"J","A","V","A","_","H","O","M","E","=","/","o","p","t","/","j","a","v","a","-">>}

\* the entries of the longer environment lists: at least one per variable read
EnvCatalog ==
    {<<"N","O","D","E","_","V","E","R","S","I","O","N","=","1","8",".","0",".","0">>, <<"N","O","D","E","_","V","E","R","S","I","O","N","=">>, <<"P","Y","T","H","O","N","_","V","E","R","S","I","O","N","=","3",".","1","1",".","2">>, <<"J","A","V","A","_","V","E","R","S","I","O","N","=","1","7",".","0",".","1">>,
     <<"J","A","V","A","_","H","O","M","E","=","/","u","s","r","/","l","i","b","/","j","v","m","/","j","a","v","a","-","1","7","-","o","p","e","n","j","d","k">>, <<"J","A","V","A","_","H","O","M","E","=","/","o","p","t","/","j","a","v","a","-","/","b","i","n">>,
     <<"G","O","L","A","N","G","_","V","E","R","S","I","O","N","=","1",".","2","1",".","0">>, <<"G","O","_","V","E","R","S","I","O","N","=","1",".","1","6",".","0">>,
     <<"G","O","L","A","N","G","_","V","E","R","S","I","O","N","=">>, <<"G","O","P","A","T","H","=","/","g","o">>, <<"P","H","P","_","V","E","R","S","I","O","N","=","8",".","2",".","0">>, <<"R","U","B","Y","_","V","E","R","S","I","O","N","=","3",".","2",".","0">>,
     <<"D","O","T","N","E","T","_","V","E","R","S","I","O","N","=","8",".","0",".","0">>, <<"A","S","P","N","E","T","C","O","R","E","_","V","E","R","S","I","O","N","=","5",".","0",".","0">>, <<"R","U","S","T","_","V","E","R","S","I","O","N","=","1",".","7","0",".","0">>,
     <<"C","A","R","G","O","_","H","O","M","E","=","/","u","s","r","/","l","o","c","a","l","/","c","a","r","g","o">>, <<"P","A","T","H","=","/","u","s","r","/","l","o","c","a","l","/","b","i","n",":","/","u","s","r","/","b","i","n">>}

Entrypoints ==
    {<< >>, <<<<"/","a","p","p","/","m","a","i","n">>>>, <<<<"/","b","i","n","/","s","h">>>>, <<<<"/","a","p","p","/","s","t","a","r","t",".","s","h">>>>, <<<<"/","u","s","r","/","l","o","c","a","l","/","b","i","n","/","n","o","d","e","-","e","x","p","o","r","t","e","r">>>>,
     <<<<"j","a","v","a">>, <<"-","j","a","r">>, <<"a","p","p",".","j","a","r">>>>, <<<<"d","o","c","k","e","r","-","e","n","t","r","y","p","o","i","n","t",".","s","h">>>>, <<<<"j","a","v","a">>>>}

Cmds ==
    {<< >>, <<<<"n","o","d","e">>, <<"s","e","r","v","e","r",".","j","s">>>>, <<<<"n","p","m">>, <<"s","t","a","r","t">>>>, <<<<"p","y","t","h","o","n">>, <<"a","p","p",".","p","y">>>>,
     <<<<"p","h","p">>, <<"i","n","d","e","x",".","p","h","p">>>>, <<<<"r","u","b","y">>, <<"a","p","p",".","r","b">>>>, <<<<"d","o","t","n","e","t">>, <<"a","p","p",".","d","l","l">>>>, <<<<"-","c">>, <<".","/","r","u","n">>>>}

WorkingDirs == {<< >>, <<"/","a","p","p">>, <<"/","g","o","/","s","r","c","/","a","p","p">>, <<"/","s","r","v">>}

\* image sizes in bytes, around the 5 MiB, 20 MiB and 100 MiB thresholds
Sizes == {0, 5 * MiB, 5 * MiB + 1, 15000000, 20 * MiB, 56900000, 100 * MiB, 1500000000}

ImageInspect(env, cmd, entrypoint, workingDir, size) ==
    [Env |-> env, Cmd |-> cmd, Entrypoint |-> entrypoint, WorkingDir |-> workingDir, Size |-> size]

\* the environment lists of at most n entries of EnvCatalog
RECURSIVE EnvLists(_)
EnvLists(n) ==
    IF n = 0 THEN {<< >>}
    ELSE EnvLists(n - 1) \cup {Append(l, e) : l \in {k \in EnvLists(n - 1) : Len(k) = n - 1}, e \in EnvCatalog}

\* one version variable, every version string (createMockImageInspect leaves Size 0)
VersionImages ==
    {ImageInspect(<<k \o v>>, << >>, << >>, <<"/","a","p","p">>, 0) : k \in VersionKeys, v \in VersionStrings}
        \cup {ImageInspect(<<h>>, << >>, << >>, <<"/","a","p","p">>, 0) : h \in JavaHomes}

\* several variables in every order, with and without a command and a binary
CascadeImages ==
    {ImageInspect(env, l[1], l[2], l[3], l[4]) :
        env \in EnvLists(MaxEnv),
        l \in {<<<< >>, << >>, << >>, 0>>,
               <<<< >>, <<<<"/","a","p","p","/","m","a","i","n">>>>, <<"/","a","p","p">>, 15000000>>,
               <<<<<<"p","y","t","h","o","n">>, <<"a","p","p",".","p","y">>>>, << >>, <<"/","s","r","v">>, 56900000>>,
               <<<<<<"n","p","m">>, <<"s","t","a","r","t">>>>, <<<<"/","a","p","p","/","m","a","i","n">>>>, <<"/","a","p","p">>, 15000000>>}}

\* no runtime variable: every command, entrypoint, working directory and size
LaunchImages ==
    {ImageInspect(<<<<"P","A","T","H","=","/","u","s","r","/","l","o","c","a","l","/","b","i","n",":","/","u","s","r","/","b","i","n">>>>, c, e, w, s) :
        c \in Cmds, e \in Entrypoints, w \in WorkingDirs, s \in Sizes}

Images == VersionImages \cup CascadeImages \cup LaunchImages

----------------------------------------------------------------------------
(* The language analysis of one image.                                     *)

\* PrintImageCompareLanguageResults is not called
CompareIdle ==
    /\ image1Inspect = << >>
    /\ image2Inspect = << >>
    /\ compared = << >>
    /\ mpc = "idle"

\* only the language analysis or the CIS analysis runs
\* DetectProjectSmart is not called
ProjectIdle ==
    /\ project = << >>
    /\ apiKey = << >>
    /\ tech = << >>
    /\ heuristic = << >>
    /\ llmCalls = 0
    /\ llmOutcome = << >>
    /\ jpc = "idle"

CreateIdle ==
    /\ useLangChain = FALSE
    /\ created = << >>
    /\ fatal = << >>
    /\ genOutcome = << >>
    /\ gpc = "idle"

ProviderIdle ==
    /\ providerConfig = << >>
    /\ provider = << >>
    /\ fpc = "idle"

\* AIAnalyzer.CompareImages is not called
AnalyzerIdle ==
    /\ analyzed = << >>
    /\ contexts = << >>
    /\ comparison = << >>
    /\ apc = "idle"

ExtraIdle == CompareIdle /\ ProjectIdle /\ CreateIdle /\ ProviderIdle /\ AnalyzerIdle

CISIdle ==
    /\ dockerfile = << >>
    /\ dockerignore = FALSE
    /\ results = << >>
    /\ cpc = "idle"
    /\ score = 0
    /\ printed = << >>
    /\ percent = -1

InitLang ==
    /\ imageInspect \in Images
    /\ lang = << >>
    /\ lpc = "start"
    /\ hasOutdatedLanguage = FALSE
    /\ languageSuggestions = << >>
    /\ CISIdle
    /\ ExtraIdle

\* lang := DetectPrimaryLanguage(imageInspect)
Detect ==
    /\ lpc = "start"
    /\ lang' = DetectPrimaryLanguage(imageInspect)
    /\ lpc' = "done"
    /\ UNCHANGED <<imageInspect, hasOutdatedLanguage, languageSuggestions, cisVars, extraVars>>

\* hasOutdatedLanguage := HasOutdatedLanguage(imageInspect)
CheckOutdated ==
    /\ lpc = "done"
    /\ hasOutdatedLanguage' = HasOutdatedLanguage(imageInspect)
    /\ lpc' = "outdated"
    /\ UNCHANGED <<imageInspect, lang, languageSuggestions, cisVars, extraVars>>

\* languageSuggestions := GetLanguageImprovementSuggestions(imageInspect)
Suggest ==
    /\ lpc = "outdated"
    /\ languageSuggestions' = GetLanguageImprovementSuggestions(imageInspect)
    /\ lpc' = "suggested"
    /\ UNCHANGED <<imageInspect, lang, hasOutdatedLanguage, cisVars, extraVars>>

NextLang == Detect \/ CheckOutdated \/ Suggest

SpecLang == InitLang /\ [][NextLang]_vars


----------------------------------------------------------------------------
(* security: the CIS rules.  A Check either returns a CISResult or panics  *)
(* (a Go run-time error that ends the process).                            *)

CISResult(ruleID, description, passed, severity, message) ==
    [RuleID |-> ruleID, Description |-> description, Passed |-> passed,
     Severity |-> severity, Message |-> message]

\* CISResult{RuleID: id, Passed: true}: the other fields keep their zero value
PassedResult(ruleID) == CISResult(ruleID, "", TRUE, "", "")

Returns(r) == [panic |-> "", result |-> r]

Panics(msg) == [panic |-> msg, result |-> CISResult("", "", FALSE, "", "")]

\* strings.HasPrefix(strings.ToUpper(strings.TrimSpace(line)), keyword)
StartsWithKeyword(line, keyword) == HasPrefix(ToUpper(TrimSpace(line)), keyword)

IsFromLine(line) == StartsWithKeyword(line, <<"F","R","O","M">>)

\* strings.Fields(line)[1]
ImageOfLine(line) == Fields(line)[2]

OfficialBaseImageRule(df) ==
    LET lines == Split(df, <<"\n">>)
        i == FirstIndex({k \in 1..Len(lines) : IsFromLine(lines[k])})
        image == ImageOfLine(lines[i])
    IN  IF i = 0
        THEN Returns(CISResult("CIS-1.1", "Use official base images", FALSE, "HIGH",
                               "No FROM instruction found"))
        ELSE IF Len(Fields(lines[i])) < 2
        THEN Panics("index out of range [1] with length 1")
        ELSE IF Contains(image, <<"/">>) /\ ~HasPrefix(image, <<"l","i","b","r","a","r","y","/">>)
        THEN Returns(CISResult("CIS-1.1", "Use official base images", FALSE, "MEDIUM",
                               "Base image does not appear to be official"))
        ELSE Returns(PassedResult("CIS-1.1"))

\* the rule judging the last FROM line
ExplicitTagRuleLastFrom(df) ==
    LET lines == Split(df, <<"\n">>)
        from == {k \in 1..Len(lines) : IsFromLine(lines[k])}
        i == IF from = {} THEN 0 ELSE CHOOSE k \in from : \A j \in from : j <= k
        image == ImageOfLine(lines[i])
    IN  IF i = 0
        THEN Returns(CISResult("CIS-1.2", "", FALSE, "", ""))
        ELSE IF Len(Fields(lines[i])) < 2
        THEN Panics("index out of range [1] with length 1")
        ELSE IF ~Contains(image, <<":">>) \/ HasSuffix(image, <<":","l","a","t","e","s","t">>)
        THEN Returns(CISResult("CIS-1.2", "Use explicit image tag (not latest)", FALSE, "HIGH",
                               "Image uses latest or no tag"))
        ELSE Returns(PassedResult("CIS-1.2"))

ExplicitTagRule(df) ==
    LET lines == Split(df, <<"\n">>)
        i == FirstIndex({k \in 1..Len(lines) : IsFromLine(lines[k])})
        image == ImageOfLine(lines[i])
    IN  IF i = 0
        THEN Returns(CISResult("CIS-1.2", "", FALSE, "", ""))
        ELSE IF Len(Fields(lines[i])) < 2
        THEN Panics("index out of range [1] with length 1")
        ELSE IF ~Contains(image, <<":">>) \/ HasSuffix(image, <<":","l","a","t","e","s","t">>)
        THEN Returns(CISResult("CIS-1.2", "Use explicit image tag (not latest)", FALSE, "HIGH",
                               "Image uses latest or no tag"))
        ELSE Returns(PassedResult("CIS-1.2"))

NoRootUserRule(df) ==
    IF ~Contains(ToLower(df), <<"u","s","e","r">>)
    THEN Returns(CISResult("CIS-4.1", "Container should not run as root", FALSE, "HIGH",
                           "Missing USER instruction"))
    ELSE Returns(PassedResult("CIS-4.1"))

CleanCacheRule(df) ==
    LET lower == ToLower(df)
    IN  IF \/ Contains(lower, <<"a","p","t","-","g","e","t"," ","c","l","e","a","n">>)
           \/ Contains(lower, <<"r","m"," ","-","r","f"," ","/","v","a","r","/","l","i","b","/","a","p","t","/","l","i","s","t","s">>)
           \/ Contains(lower, <<"a","p","k"," ","-","-","n","o","-","c","a","c","h","e">>)
        THEN Returns(PassedResult("CIS-5.1"))
        ELSE Returns(CISResult("CIS-5.1", "Remove cache and temporary files", FALSE, "MEDIUM",
                               "No cache cleanup detected"))

HealthcheckRule(df) ==
    IF ~Contains(ToLower(df), <<"h","e","a","l","t","h","c","h","e","c","k">>)
    THEN Returns(CISResult("CIS-4.6", "Container must define HEALTHCHECK", FALSE, "LOW",
                           "Missing HEALTHCHECK instruction"))
    ELSE Returns(PassedResult("CIS-4.6"))

\* os.Stat(".dockerignore") succeeds iff statOK
\* the rule passing when os.Stat fails
DockerIgnoreRuleInverted(df, statOK) ==
    IF ~statOK
    THEN Returns(PassedResult("CIS-5.2"))
    ELSE Returns(CISResult("CIS-5.2", "Use .dockerignore", FALSE, "LOW",
                           ".dockerignore file not found"))

DockerIgnoreRule(df, statOK) ==
    IF statOK
    THEN Returns(PassedResult("CIS-5.2"))
    ELSE Returns(CISResult("CIS-5.2", "Use .dockerignore", FALSE, "LOW",
                           ".dockerignore file not found"))

\* number of lines that start with keyword
CountLines(lines, keyword) ==
    Cardinality({i \in 1..Len(lines) : StartsWithKeyword(lines[i], keyword)})

MinimalPortExposureRule(df) ==
    LET count == CountLines(Split(df, <<"\n">>), <<"E","X","P","O","S","E">>)
    IN  IF count > 1
        THEN Returns(CISResult("CIS-6.1", "Expose minimum ports", FALSE, "LOW",
                               "Multiple exposed ports detected"))
        ELSE Returns(PassedResult("CIS-6.1"))

\* the rule failing for exactly one FROM line only
MultiStageBuildRuleExactlyOne(df) ==
    LET count == CountLines(Split(df, <<"\n">>), <<"F","R","O","M">>)
    IN  IF count = 1
        THEN Returns(CISResult("CIS-7.1", "Use multi-stage builds when appropriate", FALSE,
                               "MEDIUM", "Single stage build detected"))
        ELSE Returns(PassedResult("CIS-7.1"))

MultiStageBuildRule(df) ==
    LET count == CountLines(Split(df, <<"\n">>), <<"F","R","O","M">>)
    IN  IF count <= 1
        THEN Returns(CISResult("CIS-7.1", "Use multi-stage builds when appropriate", FALSE,
                               "MEDIUM", "Single stage build detected"))
        ELSE Returns(PassedResult("CIS-7.1"))

CombinedRunCommandRule(df) ==
    LET lines == Split(df, <<"\n">>)
        Uncombined(line) == HasPrefix(TrimSpace(line), <<"R","U","N">>) /\ ~Contains(line, <<"&","&">>)
    IN  IF FirstIndex({k \in 1..Len(lines) : Uncombined(lines[k])}) # 0
        THEN Returns(CISResult("CIS-8.1", "Combine RUN instructions", FALSE, "LOW",
                               "RUN instruction not combined"))
        ELSE Returns(PassedResult("CIS-8.1"))

\* the Go index (from 0) of the last of the lines `at` that satisfy a test, -1
\* when there is none: what a variable set in every matching iteration ends as
LastIndex(at) ==
    IF at = {} THEN -1 ELSE (CHOOSE i \in at : \A j \in at : i >= j) - 1

\* the rule failing also when the two indexes are equal
OptimizedOrderRuleNotStrict(df) ==
    LET lines == Split(df, <<"\n">>)
        Install(line) == Contains(ToUpper(line), <<"I","N","S","T","A","L","L">>)
                            /\ HasPrefix(TrimSpace(ToUpper(line)), <<"R","U","N">>)
        Copy(line) == HasPrefix(TrimSpace(ToUpper(line)), <<"C","O","P","Y">>)
        installIndex == LastIndex({k \in 1..Len(lines) : Install(lines[k])})
        copyIndex == LastIndex({k \in 1..Len(lines) : Copy(lines[k])})
    IN  IF installIndex >= copyIndex
        THEN Returns(CISResult("CIS-9.1", "Optimize instruction order", FALSE, "LOW",
                               "COPY before dependency install"))
        ELSE Returns(PassedResult("CIS-9.1"))

OptimizedOrderRule(df) ==
    LET lines == Split(df, <<"\n">>)
        Install(line) == Contains(ToUpper(line), <<"I","N","S","T","A","L","L">>)
                            /\ HasPrefix(TrimSpace(ToUpper(line)), <<"R","U","N">>)
        Copy(line) == HasPrefix(TrimSpace(ToUpper(line)), <<"C","O","P","Y">>)
        installIndex == LastIndex({k \in 1..Len(lines) : Install(lines[k])})
        copyIndex == LastIndex({k \in 1..Len(lines) : Copy(lines[k])})
    IN  IF installIndex > copyIndex
        THEN Returns(CISResult("CIS-9.1", "Optimize instruction order", FALSE, "LOW",
                               "COPY before dependency install"))
        ELSE Returns(PassedResult("CIS-9.1"))

\* the rules registered by NewCISAnalyzer, in order
NewCISAnalyzer ==
    <<"OfficialBaseImageRule", "ExplicitTagRule", "NoRootUserRule", "CleanCacheRule",
      "HealthcheckRule", "DockerIgnoreRule", "MinimalPortExposureRule", "MultiStageBuildRule",
      "CombinedRunCommandRule", "OptimizedOrderRule">>

\* rule.Check(content): the dynamic dispatch on the rule's type
Check(rule, content, statOK) ==
    CASE rule = "OfficialBaseImageRule" -> OfficialBaseImageRule(content)
      [] rule = "ExplicitTagRule" -> ExplicitTagRule(content)
      [] rule = "NoRootUserRule" -> NoRootUserRule(content)
      [] rule = "CleanCacheRule" -> CleanCacheRule(content)
      [] rule = "HealthcheckRule" -> HealthcheckRule(content)
      [] rule = "DockerIgnoreRule" -> DockerIgnoreRule(content, statOK)
      [] rule = "MinimalPortExposureRule" -> MinimalPortExposureRule(content)
      [] rule = "MultiStageBuildRule" -> MultiStageBuildRule(content)
      [] rule = "CombinedRunCommandRule" -> CombinedRunCommandRule(content)
      [] rule = "OptimizedOrderRule" -> OptimizedOrderRule(content)

----------------------------------------------------------------------------
(* The Dockerfiles the analysis is run on.                                 *)

LineCatalog ==
    {<<"F","R","O","M"," ","n","o","d","e",":","1","8">>, <<"F","R","O","M"," ","u","b","u","n","t","u">>, <<"F","R","O","M"," ","m","y","o","r","g","/","a","p","p",":","l","a","t","e","s","t">>, <<"F","R","O","M"," ","l","i","b","r","a","r","y","/","a","l","p","i","n","e",":","3",".","1","8"," ","A","S"," ","b","u","i","l","d">>,
     <<"F","R","O","M">>, <<" "," ","f","r","o","m"," ","s","c","r","a","t","c","h">>, <<"U","S","E","R"," ","a","p","p">>, <<"R","U","N"," ","a","p","t","-","g","e","t"," ","u","p","d","a","t","e">>,
     <<"R","U","N"," ","u","s","e","r","a","d","d"," ","a","p","p"," ","&","&"," ","a","p","t","-","g","e","t"," ","c","l","e","a","n">>, <<"R","U","N"," ","n","p","m"," ","i","n","s","t","a","l","l">>, <<"C","O","P","Y"," ","."," ",".">>, <<"E","X","P","O","S","E"," ","8","0">>,
     <<"H","E","A","L","T","H","C","H","E","C","K"," ","C","M","D"," ","t","r","u","e">>, <<"r","u","n"," ","p","i","p"," ","i","n","s","t","a","l","l">>, << >>}

\* the texts of at most n lines of LineCatalog, each line but the last ended by "\n"
RECURSIVE LineLists(_)
LineLists(n) ==
    IF n = 0 THEN {<< >>}
    ELSE LineLists(n - 1) \cup {Append(l, e) : l \in {k \in LineLists(n - 1) : Len(k) = n - 1}, e \in LineCatalog}

Dockerfiles == {Join(l, <<"\n">>) : l \in LineLists(MaxLines)}

----------------------------------------------------------------------------
(* functions.AnalyzeDockerfile: read the file, run the analyzer, print.    *)

LangIdle ==
    /\ imageInspect = ImageInspect(<< >>, << >>, << >>, << >>, 0)
    /\ lang = << >>
    /\ lpc = "idle"
    /\ hasOutdatedLanguage = FALSE
    /\ languageSuggestions = << >>

InitCIS ==
    /\ dockerfile \in Dockerfiles
    /\ dockerignore \in BOOLEAN
    /\ results = << >>
    /\ cpc = "read"
    /\ score = 0
    /\ printed = << >>
    /\ percent = -1
    /\ LangIdle
    /\ ExtraIdle

\* os.ReadFile fails: "Failed to read Dockerfile" is printed and nothing else runs
ReadFileFails ==
    /\ cpc = "read"
    /\ cpc' = "done"
    /\ UNCHANGED <<dockerfile, dockerignore, results, score, printed, percent, langVars, extraVars>>

\* os.ReadFile succeeds; NewCISAnalyzer; Analyze starts with results := []CISResult{}
ReadFileOK ==
    /\ cpc = "read"
    /\ results' = << >>
    /\ cpc' = "analyze"
    /\ UNCHANGED <<dockerfile, dockerignore, score, printed, percent, langVars, extraVars>>

\* one iteration of Analyze's loop: results = append(results, rule.Check(content))
AnalyzeStep ==
    /\ cpc = "analyze"
    /\ Len(results) < Len(NewCISAnalyzer)
    /\ LET out == Check(NewCISAnalyzer[Len(results) + 1], dockerfile, dockerignore)
       IN  IF out.panic # ""
           THEN cpc' = "panic" /\ UNCHANGED results
           ELSE cpc' = "analyze" /\ results' = Append(results, out.result)
    /\ UNCHANGED <<dockerfile, dockerignore, score, printed, percent, langVars, extraVars>>

\* the loop of Analyze is over: return results
AnalyzeReturn ==
    /\ cpc = "analyze"
    /\ Len(results) = Len(NewCISAnalyzer)
    /\ cpc' = "print"
    /\ UNCHANGED <<dockerfile, dockerignore, results, score, printed, percent, langVars, extraVars>>

\* score incremented in the FAIL branch
RECURSIVE CountFailed(_)
CountFailed(rs) ==
    IF rs = << >> THEN 0
    ELSE CountFailed(SubSeq(rs, 1, Len(rs) - 1)) + (IF rs[Len(rs)].Passed THEN 0 ELSE 1)

\* the value of score after the loop of PrintCISResults over rs
RECURSIVE CountPassed(_)
CountPassed(rs) ==
    IF rs = << >> THEN 0
    ELSE CountPassed(SubSeq(rs, 1, Len(rs) - 1)) + (IF rs[Len(rs)].Passed THEN 1 ELSE 0)

\* the "Severity: ... Issue: ..." lines printed for the failed results of rs
RECURSIVE FailedLines(_)
FailedLines(rs) ==
    IF rs = << >> THEN << >>
    ELSE LET r == rs[Len(rs)]
             before == FailedLines(SubSeq(rs, 1, Len(rs) - 1))
         IN  IF ~r.Passed
             THEN Append(before, [RuleID |-> r.RuleID, Severity |-> r.Severity, Issue |-> r.Message])
             ELSE before

\* PrintCISResults(results): percent := (score * 100) / len(results)
PrintCISResults ==
    /\ cpc = "print"
    /\ score' = CountPassed(results)
    /\ printed' = FailedLines(results)
    /\ IF Len(results) = 0
       THEN cpc' = "panic" /\ UNCHANGED percent
       ELSE cpc' = "done" /\ percent' = (CountPassed(results) * 100) \div Len(results)
    /\ UNCHANGED <<dockerfile, dockerignore, results, langVars, extraVars>>

NextCIS ==
    \/ ReadFileFails
    \/ ReadFileOK
    \/ AnalyzeStep
    \/ AnalyzeReturn
    \/ PrintCISResults

SpecCIS == InitCIS /\ [][NextCIS]_vars


----------------------------------------------------------------------------
(* PrintImageCompareLanguageResults: the language comparison of two        *)
(* images.  The printed line is kept as the sequence of its pieces, in the *)
(* order they are printed; the colours of the pieces are left out.         *)

\* the comparison reporting the smaller major version as the newer one
PrintImageCompareLanguageResultsLess(image1, inspect1, image2, inspect2) ==
    LET lang1 == DetectPrimaryLanguage(inspect1)
        lang2 == DetectPrimaryLanguage(inspect2)
    IN  IF lang1 = << >> /\ lang2 = << >>
        THEN <<"  - No programming language runtime detected in either image.">>
        ELSE IF lang1 = << >>
        THEN <<"  - Only image ", image2, " has detected language runtime: ",
               lang2[1].Name, " ", lang2[1].Version>>
        ELSE IF lang2 = << >>
        THEN <<"  - Only image ", image1, " has detected language runtime: ",
               lang1[1].Name, " ", lang1[1].Version>>
        ELSE IF lang1[1].Name # lang2[1].Name
        THEN <<"  - Images use different languages: ", lang1[1].Name, " (", lang1[1].Version,
               ") vs ", lang2[1].Name, " (", lang2[1].Version, ")">>
        ELSE LET major1 == getMajorVersion(lang1[1].Version)
                 major2 == getMajorVersion(lang2[1].Version)
             IN  IF lang1[1].Version = lang2[1].Version
                 THEN <<"  - Both images use the same ", lang1[1].Name, " version: ",
                        lang1[1].Version>>
                 ELSE IF major1 = major2
                 THEN <<"  - Both images use ", lang1[1].Name, " version ", lang1[1].Version,
                        " (minor version may differ)">>
                 ELSE IF major1 < major2
                 THEN <<"  - Image ", image1, " uses newer ", lang1[1].Name, " (",
                        lang1[1].Version, " > ", lang2[1].Version, ")">>
                 ELSE <<"  - Image ", image2, " uses newer ", lang2[1].Name, " (",
                        lang2[1].Version, " > ", lang1[1].Version, ")">>

PrintImageCompareLanguageResults(image1, inspect1, image2, inspect2) ==
    LET lang1 == DetectPrimaryLanguage(inspect1)
        lang2 == DetectPrimaryLanguage(inspect2)
    IN  IF lang1 = << >> /\ lang2 = << >>
        THEN <<"  - No programming language runtime detected in either image.">>
        ELSE IF lang1 = << >>
        THEN <<"  - Only image ", image2, " has detected language runtime: ",
               lang2[1].Name, " ", lang2[1].Version>>
        ELSE IF lang2 = << >>
        THEN <<"  - Only image ", image1, " has detected language runtime: ",
               lang1[1].Name, " ", lang1[1].Version>>
        ELSE IF lang1[1].Name # lang2[1].Name
        THEN <<"  - Images use different languages: ", lang1[1].Name, " (", lang1[1].Version,
               ") vs ", lang2[1].Name, " (", lang2[1].Version, ")">>
        ELSE LET major1 == getMajorVersion(lang1[1].Version)
                 major2 == getMajorVersion(lang2[1].Version)
             IN  IF lang1[1].Version = lang2[1].Version
                 THEN <<"  - Both images use the same ", lang1[1].Name, " version: ",
                        lang1[1].Version>>
                 ELSE IF major1 = major2
                 THEN <<"  - Both images use ", lang1[1].Name, " version ", lang1[1].Version,
                        " (minor version may differ)">>
                 ELSE IF major1 > major2
                 THEN <<"  - Image ", image1, " uses newer ", lang1[1].Name, " (",
                        lang1[1].Version, " > ", lang2[1].Version, ")">>
                 ELSE <<"  - Image ", image2, " uses newer ", lang2[1].Name, " (",
                        lang2[1].Version, " > ", lang1[1].Version, ")">>

\* the environments of the compared images
CompareEnvs ==
    {<<"P","A","T","H","=","/","u","s","r","/","b","i","n">>, <<"N","O","D","E","_","V","E","R","S","I","O","N","=","1","8",".","0",".","0">>, <<"N","O","D","E","_","V","E","R","S","I","O","N","=","2","0",".","0",".","0">>, <<"N","O","D","E","_","V","E","R","S","I","O","N","=","1","8",".","1","7",".","0">>,
     <<"N","O","D","E","_","V","E","R","S","I","O","N","=","1","8">>, <<"N","O","D","E","_","V","E","R","S","I","O","N","=","v","2","0",".","0",".","0">>, <<"N","O","D","E","_","V","E","R","S","I","O","N","=">>, <<"P","Y","T","H","O","N","_","V","E","R","S","I","O","N","=","3",".","1","1",".","0">>,
     <<"P","Y","T","H","O","N","_","V","E","R","S","I","O","N","=","3",".","9",".","0">>, <<"P","Y","T","H","O","N","_","V","E","R","S","I","O","N","=","2",".","7",".","1","8">>, <<"G","O","L","A","N","G","_","V","E","R","S","I","O","N","=","1",".","2","1",".","0">>, <<"G","O","P","A","T","H","=","/","g","o">>,
     <<"J","A","V","A","_","H","O","M","E","=","/","u","s","r","/","l","i","b","/","j","v","m","/","j","a","v","a","-","1","7","-","o","p","e","n","j","d","k">>, <<"J","A","V","A","_","V","E","R","S","I","O","N","=","1","7",".","0",".","1">>, <<"J","A","V","A","_","V","E","R","S","I","O","N","=","8">>}

\* createMockImageInspect(env, {}, {}, "/app", 50000000), and two images
\* that only their launch describes
CompareImages ==
    {ImageInspect(<<e>>, << >>, << >>, <<"/","a","p","p">>, 50000000) : e \in CompareEnvs}
        \cup {ImageInspect(<<<<"P","A","T","H","=","/","u","s","r","/","b","i","n">>>>, << >>, <<<<"/","a","p","p","/","m","a","i","n">>>>, <<"/","a","p","p">>, 15000000),
              ImageInspect(<<<<"P","A","T","H","=","/","u","s","r","/","b","i","n">>>>, <<<<"n","o","d","e">>, <<"s","e","r","v","e","r",".","j","s">>>>, << >>, <<"/","s","r","v">>, 50000000)}

InitCompare ==
    /\ image1Inspect \in CompareImages
    /\ image2Inspect \in CompareImages
    /\ compared = << >>
    /\ mpc = "start"
    /\ LangIdle
    /\ CISIdle
    /\ ProjectIdle
    /\ CreateIdle
    /\ ProviderIdle
    /\ AnalyzerIdle

\* PrintImageCompareLanguageResults("image1", image1Inspect, "image2", image2Inspect)
Compare ==
    /\ mpc = "start"
    /\ compared' = PrintImageCompareLanguageResults("image1", image1Inspect, "image2", image2Inspect)
    /\ mpc' = "done"
    /\ UNCHANGED <<image1Inspect, image2Inspect, langVars, cisVars, projVars, genVars, facVars, aiVars>>

NextCompare == Compare

SpecCompare == InitCompare /\ [][NextCompare]_vars

----------------------------------------------------------------------------
(* DetectProject and DetectProjectSmart: the technology of the project in  *)
(* the working directory.  File names, extensions and language names are   *)
(* plain strings (they are only compared); file contents are sequences of  *)
(* characters.                                                             *)

\* the permutations of a finite set, as sequences: the orders in which a
\* range loop may enumerate the keys of a map
RECURSIVE Orders(_)
Orders(S) ==
    IF S = {} THEN {<< >>}
    ELSE UNION {{<<x>> \o o : o \in Orders(S \ {x})} : x \in S}

langMap ==
    [ext \in {".js", ".jsx", ".ts", ".tsx", ".py", ".go", ".java", ".kt", ".rs", ".php", ".rb",
              ".cs", ".cpp", ".c", ".swift", ".dart"} |->
        CASE ext \in {".js", ".jsx"} -> <<"j","a","v","a","s","c","r","i","p","t">>
          [] ext \in {".ts", ".tsx"} -> <<"t","y","p","e","s","c","r","i","p","t">>
          [] ext = ".py" -> <<"p","y","t","h","o","n">>
          [] ext = ".go" -> <<"g","o">>
          [] ext = ".java" -> <<"j","a","v","a">>
          [] ext = ".kt" -> <<"k","o","t","l","i","n">>
          [] ext = ".rs" -> <<"r","u","s","t">>
          [] ext = ".php" -> <<"p","h","p">>
          [] ext = ".rb" -> <<"r","u","b","y">>
          [] ext = ".cs" -> <<"c","s","h","a","r","p">>
          [] ext = ".cpp" -> <<"c","p","p">>
          [] ext = ".c" -> <<"c">>
          [] ext = ".swift" -> <<"s","w","i","f","t">>
          [] ext = ".dart" -> <<"d","a","r","t">>]

\* the sum of the counts of a set of extensions
RECURSIVE SumCounts(_, _)
SumCounts(extensions, exts) ==
    IF exts = {} THEN 0
    ELSE LET e == CHOOSE x \in exts : TRUE
         IN  extensions[e] + SumCounts(extensions, exts \ {e})

\* langCount: per language the number of files of its extensions; the keys
\* of stats.Extensions are the extensions with a count above 0
LangCount(extensions) ==
    LET keys == {e \in DOMAIN extensions : extensions[e] > 0 /\ e \in DOMAIN langMap}
        langs == {langMap[e] : e \in keys}
    IN  [l \in langs |-> SumCounts(extensions, {e \in keys : langMap[e] = l})]

\* the loop over langCount, in the order the languages are enumerated
RECURSIVE PrimaryLang(_, _, _, _)
PrimaryLang(langCount, order, maxCount, primaryLang) ==
    IF order = << >> THEN primaryLang
    ELSE IF langCount[Head(order)] > maxCount
         THEN PrimaryLang(langCount, Tail(order), langCount[Head(order)], Head(order))
         ELSE PrimaryLang(langCount, Tail(order), maxCount, primaryLang)

\* the same loop with maxCount never updated
RECURSIVE PrimaryLangNoMax(_, _, _, _)
PrimaryLangNoMax(langCount, order, maxCount, primaryLang) ==
    IF order = << >> THEN primaryLang
    ELSE IF langCount[Head(order)] > maxCount
         THEN PrimaryLangNoMax(langCount, Tail(order), maxCount, Head(order))
         ELSE PrimaryLangNoMax(langCount, Tail(order), maxCount, primaryLang)

detectLanguageFromExtensionsNoMax(extensions, order) ==
    PrimaryLangNoMax(LangCount(extensions), order, 0, <<"u","n","k","n","o","w","n">>)

\* detectLanguageFromExtensions when the map is enumerated in this order
detectLanguageFromExtensions(extensions, order) ==
    PrimaryLang(LangCount(extensions), order, 0, <<"u","n","k","n","o","w","n">>)

\* knownConfigs of detectConfigFiles, in its order
knownConfigs ==
    <<"package.json", "package-lock.json", "yarn.lock", "pnpm-lock.yaml", "tsconfig.json",
      "webpack.config.js", "vite.config.js", "vite.config.ts", "next.config.js", "nuxt.config.js",
      "svelte.config.js",
      "requirements.txt", "Pipfile", "Pipfile.lock", "pyproject.toml", "setup.py", "poetry.lock",
      "conda.yml", "environment.yml",
      "go.mod", "go.sum",
      "pom.xml", "build.gradle", "build.gradle.kts", "settings.gradle",
      "Cargo.toml", "Cargo.lock",
      "composer.json", "composer.lock",
      "Gemfile", "Gemfile.lock",
      "*.csproj", "*.sln", "packages.config",
      "Dockerfile", "docker-compose.yml", "docker-compose.yaml",
      "Makefile", "CMakeLists.txt">>

\* os.Stat(filename) succeeds
fileExists(p, filename) == filename \in p.files

detectConfigFiles(p) ==
    LET Found(config) == fileExists(p, config)
    IN  SelectSeq(knownConfigs, Found)

\* the text of a file of the project; the project's variant selects it
FileText(name, variant) ==
    CASE name = "go.mod" ->
            IF variant = 1 THEN <<"m","o","d","u","l","e"," ","a","p","p","\n","\n","g","o"," ","1",".","2","1","\n">>
            ELSE <<"m","o","d","u","l","e"," ","a","p","p","\n","\n"," "," ","g","o"," ","1",".","2","2","\n","\n","r","e","q","u","i","r","e"," ","g","i","t","h","u","b",".","c","o","m","/","g","i","n","-","g","o","n","i","c","/","g","i","n"," ","v","1",".","9",".","1","\n">>
      [] name = "Cargo.toml" ->
            IF variant = 1 THEN <<"[","p","a","c","k","a","g","e","]","\n","n","a","m","e"," ","="," ","\"","a","p","p","\"","\n">>
            ELSE <<"[","d","e","p","e","n","d","e","n","c","i","e","s","]","\n","a","x","u","m"," ","="," ","\"","0",".","7","\"","\n">>
      [] name = "composer.json" ->
            IF variant = 1 THEN <<"{","\"","r","e","q","u","i","r","e","\"",":","{","\"","l","a","r","a","v","e","l","/","f","r","a","m","e","w","o","r","k","\"",":","\"","^","1","0",".","0","\"","}","}">>
            ELSE <<"{","}">>
      [] name = "pom.xml" ->
            IF variant = 1 THEN <<"<","a","r","t","i","f","a","c","t","I","d",">","s","p","r","i","n","g","-","b","o","o","t","-","s","t","a","r","t","e","r","<","/","a","r","t","i","f","a","c","t","I","d",">">>
            ELSE <<"<","p","r","o","j","e","c","t",">","<","/","p","r","o","j","e","c","t",">">>
      [] name = "Gemfile" ->
            IF variant = 1 THEN <<"g","e","m"," ","\"","r","a","i","l","s","\"","\n">> ELSE <<"g","e","m"," ","\"","r","a","k","e","\"","\n">>
      [] name = "app.py" ->
            IF variant = 1 THEN <<"f","r","o","m"," ","f","l","a","s","k"," ","i","m","p","o","r","t"," ","F","l","a","s","k","\n">> ELSE <<"i","m","p","o","r","t"," ","f","a","s","t","a","p","i","\n">>
      [] name = "app.csproj" ->
            IF variant = 1 THEN <<"<","P","r","o","j","e","c","t"," ","S","d","k","=","\"","M","i","c","r","o","s","o","f","t",".","N","E","T",".","S","d","k",".","W","e","b","\"","/",">">>
            ELSE <<"<","P","a","c","k","a","g","e","R","e","f","e","r","e","n","c","e"," ","I","n","c","l","u","d","e","=","\"","M","i","c","r","o","s","o","f","t",".","A","s","p","N","e","t","C","o","r","e",".","A","p","p","\"","/",">">>
      [] OTHER -> << >>

\* json.Unmarshal of package.json: whether it fails, and the names of the
\* string-valued entries of "dependencies" and "devDependencies"
PackageJson(variant) ==
    CASE variant = 1 -> [err |-> FALSE, dependencies |-> {"react"}, devDependencies |-> {"vite"}]
      [] variant = 2 -> [err |-> TRUE, dependencies |-> {}, devDependencies |-> {}]
      [] OTHER -> [err |-> FALSE, dependencies |-> {"express"}, devDependencies |-> {}]

\* os.ReadFile(name): the text, or an error when the file is missing
ReadFile(p, name) ==
    IF name \in p.files THEN [err |-> FALSE, data |-> FileText(name, p.variant)]
    ELSE [err |-> TRUE, data |-> << >>]

\* &ProjectTechnology{ConfigFiles: {}, RootFiles: GetRootFiles(), FileExtensions: {}}
NewProjectTechnology(p) ==
    [Language |-> << >>, Framework |-> << >>, BuildTool |-> << >>, PackageManager |-> << >>,
     Version |-> << >>, ConfigFiles |-> << >>, Dependencies |-> {}, DevDependencies |-> {},
     RootFiles |-> p.files, FileExtensions |-> << >>]

detectNodeJSProject(p, t) ==
    IF ~fileExists(p, "package.json") THEN t
    ELSE IF PackageJson(p.variant).err THEN t
    ELSE LET pkgJson == PackageJson(p.variant)
             allDeps == pkgJson.dependencies \cup pkgJson.devDependencies
             packageManager ==
                 IF fileExists(p, "yarn.lock") THEN <<"y","a","r","n">>
                 ELSE IF fileExists(p, "pnpm-lock.yaml") THEN <<"p","n","p","m">>
                 ELSE <<"n","p","m">>
             framework ==
                 IF "next" \in allDeps THEN <<"n","e","x","t","j","s">>
                 ELSE IF "nuxt" \in allDeps THEN <<"n","u","x","t">>
                 ELSE IF "react" \in allDeps THEN <<"r","e","a","c","t">>
                 ELSE IF "vue" \in allDeps THEN <<"v","u","e">>
                 ELSE IF "svelte" \in allDeps THEN <<"s","v","e","l","t","e">>
                 ELSE IF "express" \in allDeps THEN <<"e","x","p","r","e","s","s">>
                 ELSE IF "nestjs" \in allDeps THEN <<"n","e","s","t","j","s">>
                 ELSE t.Framework
             buildTool ==
                 IF fileExists(p, "vite.config.js") \/ fileExists(p, "vite.config.ts") THEN <<"v","i","t","e">>
                 ELSE IF fileExists(p, "webpack.config.js") THEN <<"w","e","b","p","a","c","k">>
                 ELSE IF "vite" \in allDeps THEN <<"v","i","t","e">>
                 ELSE IF "webpack" \in allDeps THEN <<"w","e","b","p","a","c","k">>
                 ELSE t.BuildTool
         IN  [t EXCEPT !.PackageManager = packageManager,
                       !.Dependencies = pkgJson.dependencies,
                       !.DevDependencies = pkgJson.devDependencies,
                       !.Framework = framework,
                       !.BuildTool = buildTool]

detectPythonProject(p, t) ==
    LET packageManager ==
            IF fileExists(p, "Pipfile") THEN <<"p","i","p","e","n","v">>
            ELSE IF fileExists(p, "poetry.lock") THEN <<"p","o","e","t","r","y">>
            ELSE IF fileExists(p, "requirements.txt") THEN <<"p","i","p">>
            ELSE IF fileExists(p, "conda.yml") \/ fileExists(p, "environment.yml") THEN <<"c","o","n","d","a">>
            ELSE t.PackageManager
        content == ReadFile(p, "app.py").data
        framework ==
            IF fileExists(p, "manage.py") THEN <<"d","j","a","n","g","o">>
            ELSE IF (fileExists(p, "app.py") \/ fileExists(p, "main.py")) /\ ~ReadFile(p, "app.py").err
            THEN IF Contains(content, <<"f","r","o","m"," ","f","l","a","s","k">>) \/ Contains(content, <<"i","m","p","o","r","t"," ","f","l","a","s","k">>)
                 THEN <<"f","l","a","s","k">>
                 ELSE IF Contains(content, <<"f","r","o","m"," ","f","a","s","t","a","p","i">>) \/ Contains(content, <<"i","m","p","o","r","t"," ","f","a","s","t","a","p","i">>)
                 THEN <<"f","a","s","t","a","p","i">>
                 ELSE t.Framework
            ELSE t.Framework
    IN  [t EXCEPT !.Language = <<"p","y","t","h","o","n">>, !.PackageManager = packageManager, !.Framework = framework]

\* the value of the first line of go.mod that starts with "go ", if it has two fields
GoVersionOf(lines, version) ==
    LET i == FirstIndex({k \in 1..Len(lines) : HasPrefix(TrimSpace(lines[k]), <<"g","o"," ">>)})
    IN  IF i = 0 THEN version
        ELSE IF Len(Fields(lines[i])) >= 2 THEN Fields(lines[i])[2]
        ELSE version

detectGoProject(p, t) ==
    LET t1 == [t EXCEPT !.Language = <<"g","o">>, !.PackageManager = <<"g","o"," ","m","o","d","u","l","e","s">>]
        content == ReadFile(p, "go.mod").data
        lines == Split(content, <<"\n">>)
        framework ==
            IF Contains(content, <<"g","i","t","h","u","b",".","c","o","m","/","g","i","n","-","g","o","n","i","c","/","g","i","n">>) THEN <<"g","i","n">>
            ELSE IF Contains(content, <<"g","i","t","h","u","b",".","c","o","m","/","g","o","f","i","b","e","r","/","f","i","b","e","r">>) THEN <<"f","i","b","e","r">>
            ELSE IF Contains(content, <<"g","i","t","h","u","b",".","c","o","m","/","l","a","b","s","t","a","c","k","/","e","c","h","o">>) THEN <<"e","c","h","o">>
            ELSE t1.Framework
    IN  IF ~fileExists(p, "go.mod") THEN t1
        ELSE IF ReadFile(p, "go.mod").err THEN t1
        ELSE [t1 EXCEPT !.Framework = framework, !.Version = GoVersionOf(lines, t1.Version)]

detectJavaProject(p, t) ==
    LET t1 == [t EXCEPT !.Language = <<"j","a","v","a">>]
        t2 == IF fileExists(p, "pom.xml")
              THEN [t1 EXCEPT !.PackageManager = <<"m","a","v","e","n">>, !.BuildTool = <<"m","a","v","e","n">>]
              ELSE IF fileExists(p, "build.gradle") \/ fileExists(p, "build.gradle.kts")
              THEN [t1 EXCEPT !.PackageManager = <<"g","r","a","d","l","e">>, !.BuildTool = <<"g","r","a","d","l","e">>]
              ELSE t1
    IN  IF t2.PackageManager = <<"m","a","v","e","n">> /\ ~ReadFile(p, "pom.xml").err
              /\ Contains(ReadFile(p, "pom.xml").data, <<"s","p","r","i","n","g","-","b","o","o","t">>)
        THEN [t2 EXCEPT !.Framework = <<"s","p","r","i","n","g","-","b","o","o","t">>]
        ELSE t2

detectRustProject(p, t) ==
    LET t1 == [t EXCEPT !.Language = <<"r","u","s","t">>, !.PackageManager = <<"c","a","r","g","o">>, !.BuildTool = <<"c","a","r","g","o">>]
        content == ReadFile(p, "Cargo.toml").data
    IN  IF fileExists(p, "Cargo.toml") /\ ~ReadFile(p, "Cargo.toml").err
        THEN IF Contains(content, <<"a","c","t","i","x","-","w","e","b">>) THEN [t1 EXCEPT !.Framework = <<"a","c","t","i","x","-","w","e","b">>]
             ELSE IF Contains(content, <<"r","o","c","k","e","t">>) THEN [t1 EXCEPT !.Framework = <<"r","o","c","k","e","t">>]
             ELSE IF Contains(content, <<"a","x","u","m">>) THEN [t1 EXCEPT !.Framework = <<"a","x","u","m">>]
             ELSE t1
        ELSE t1

detectPHPProject(p, t) ==
    LET t1 == [t EXCEPT !.Language = <<"p","h","p">>]
        t2 == [t1 EXCEPT !.PackageManager = <<"c","o","m","p","o","s","e","r">>]
        content == ReadFile(p, "composer.json").data
    IN  IF fileExists(p, "composer.json")
        THEN IF ReadFile(p, "composer.json").err THEN t2
             ELSE IF Contains(content, <<"l","a","r","a","v","e","l","/","f","r","a","m","e","w","o","r","k">>) THEN [t2 EXCEPT !.Framework = <<"l","a","r","a","v","e","l">>]
             ELSE IF Contains(content, <<"s","y","m","f","o","n","y","/","s","y","m","f","o","n","y">>) THEN [t2 EXCEPT !.Framework = <<"s","y","m","f","o","n","y">>]
             ELSE t2
        ELSE t1

detectRubyProject(p, t) ==
    LET t1 == [t EXCEPT !.Language = <<"r","u","b","y">>]
        t2 == [t1 EXCEPT !.PackageManager = <<"b","u","n","d","l","e","r">>]
        content == ReadFile(p, "Gemfile").data
    IN  IF fileExists(p, "Gemfile")
        THEN IF ReadFile(p, "Gemfile").err THEN t2
             ELSE IF Contains(content, <<"r","a","i","l","s">>) THEN [t2 EXCEPT !.Framework = <<"r","a","i","l","s">>]
             ELSE IF Contains(content, <<"s","i","n","a","t","r","a">>) THEN [t2 EXCEPT !.Framework = <<"s","i","n","a","t","r","a">>]
             ELSE t2
        ELSE t1

\* filepath.Glob("*.csproj"): the model's projects hold at most app.csproj
detectCSharpProject(p, t) ==
    LET t1 == [t EXCEPT !.Language = <<"c","s","h","a","r","p">>, !.PackageManager = <<"n","u","g","e","t">>]
    IN  IF fileExists(p, "app.csproj") /\ Contains(ReadFile(p, "app.csproj").data, <<"M","i","c","r","o","s","o","f","t",".","A","s","p","N","e","t","C","o","r","e">>)
        THEN [t1 EXCEPT !.Framework = <<"a","s","p","n","e","t","-","c","o","r","e">>]
        ELSE t1

\* one iteration of the loop of detectByConfigFiles
ByConfigFile(p, t, configFile) ==
    CASE configFile = "package.json" -> detectNodeJSProject(p, [t EXCEPT !.Language = <<"j","a","v","a","s","c","r","i","p","t">>])
      [] configFile = "go.mod" -> detectGoProject(p, [t EXCEPT !.Language = <<"g","o">>])
      [] configFile \in {"requirements.txt", "Pipfile", "pyproject.toml"} ->
            detectPythonProject(p, [t EXCEPT !.Language = <<"p","y","t","h","o","n">>])
      [] configFile = "Cargo.toml" -> detectRustProject(p, [t EXCEPT !.Language = <<"r","u","s","t">>])
      [] configFile = "composer.json" -> detectPHPProject(p, [t EXCEPT !.Language = <<"p","h","p">>])
      [] OTHER -> t

\* the loop of detectByConfigFiles over the files from position i on
RECURSIVE ByConfigFilesFrom(_, _, _, _)
ByConfigFilesFrom(p, t, configFiles, i) ==
    IF i > Len(configFiles) THEN t
    ELSE ByConfigFilesFrom(p, ByConfigFile(p, t, configFiles[i]), configFiles, i + 1)

detectByConfigFiles(p, t) == ByConfigFilesFrom(p, t, t.ConfigFiles, 1)

\* step 4 of DetectProject: the switch on tech.Language
DetectSpecific(p, t) ==
    CASE t.Language \in {<<"j","a","v","a","s","c","r","i","p","t">>, <<"t","y","p","e","s","c","r","i","p","t">>} -> detectNodeJSProject(p, t)
      [] t.Language = <<"p","y","t","h","o","n">> -> detectPythonProject(p, t)
      [] t.Language = <<"g","o">> -> detectGoProject(p, t)
      [] t.Language = <<"j","a","v","a">> -> detectJavaProject(p, t)
      [] t.Language = <<"r","u","s","t">> -> detectRustProject(p, t)
      [] t.Language = <<"p","h","p">> -> detectPHPProject(p, t)
      [] t.Language = <<"r","u","b","y">> -> detectRubyProject(p, t)
      [] t.Language = <<"c","s","h","a","r","p">> -> detectCSharpProject(p, t)
      [] OTHER -> detectByConfigFiles(p, t)

TrimSuffix(s, suffix) ==
    IF HasSuffix(s, suffix) THEN SubSeq(s, 1, Len(s) - Len(suffix)) ELSE s

\* the first position from i on that holds no JSON white space, Len(s) + 1 when none
SkipSpace(s, i) ==
    LET at == {k \in i..Len(s) : ~IsSpace(s[k])}
    IN  IF at = {} THEN Len(s) + 1 ELSE CHOOSE k \in at : \A j \in at : k <= j

\* a JSON string without escapes starting at i: its value and the position after it
JSONString(s, i) ==
    LET close == {k \in (i + 1)..Len(s) : s[k] = "\""}
        j == CHOOSE k \in close : \A l \in close : k <= l
    IN  IF i > Len(s) \/ s[i] # "\"" \/ close = {} THEN [err |-> TRUE, value |-> << >>, next |-> i]
        ELSE [err |-> FALSE, value |-> SubSeq(s, i + 1, j - 1), next |-> j + 1]

\* aiResult with no field set, and the error result of json.Unmarshal
EmptyAIResult ==
    [err |-> FALSE, Language |-> << >>, Framework |-> << >>, PackageManager |-> << >>,
     BuildTool |-> << >>]

\* the struct field a member is stored in: the json tags, matched without regard to case
SetAIField(acc, key, value) ==
    CASE ToLower(key) = <<"l","a","n","g","u","a","g","e">> -> [acc EXCEPT !.Language = value]
      [] ToLower(key) = <<"f","r","a","m","e","w","o","r","k">> -> [acc EXCEPT !.Framework = value]
      [] ToLower(key) = <<"p","a","c","k","a","g","e","m","a","n","a","g","e","r">> -> [acc EXCEPT !.PackageManager = value]
      [] ToLower(key) = <<"b","u","i","l","d","t","o","o","l">> -> [acc EXCEPT !.BuildTool = value]
      [] OTHER -> acc

\* the members of a JSON object from position i on, up to the closing brace
RECURSIVE JSONMembers(_, _, _)
JSONMembers(s, i, acc) ==
    LET key == JSONString(s, i)
        colon == SkipSpace(s, key.next)
        val == JSONString(s, SkipSpace(s, colon + 1))
        after == SkipSpace(s, val.next)
    IN  IF key.err \/ colon > Len(s) \/ s[colon] # ":" \/ val.err \/ after > Len(s)
        THEN [EmptyAIResult EXCEPT !.err = TRUE]
        ELSE IF s[after] = ","
        THEN JSONMembers(s, SkipSpace(s, after + 1), SetAIField(acc, key.value, val.value))
        ELSE IF s[after] = "}" /\ SkipSpace(s, after + 1) > Len(s)
        THEN SetAIField(acc, key.value, val.value)
        ELSE [EmptyAIResult EXCEPT !.err = TRUE]

\* json.Unmarshal([]byte(response), &aiResult), for the texts of the model: an
\* object whose members are strings, or a text that is not JSON
Unmarshal(s) ==
    LET open == SkipSpace(s, 1)
        first == SkipSpace(s, open + 1)
    IN  IF open > Len(s) \/ s[open] # "{" \/ first > Len(s)
        THEN [EmptyAIResult EXCEPT !.err = TRUE]
        ELSE IF s[first] = "}"
        THEN IF SkipSpace(s, first + 1) > Len(s) THEN EmptyAIResult
             ELSE [EmptyAIResult EXCEPT !.err = TRUE]
        ELSE JSONMembers(s, first, EmptyAIResult)

\* what the provider constructors of the test build return
NewGeminiProvider(key, model) == [provider |-> <<"MockAIProvider">>, err |-> << >>]

NewOpenAIProvider(key, model) == [provider |-> <<"MockAIProvider">>, err |-> << >>]

\* NewAIProvider dispatching on the type as it is written
NewAIProviderCaseSensitive(config) ==
    IF config.APIKey = << >>
    THEN [provider |-> << >>, err |-> <<"API key is required">>]
    ELSE IF config.Type = <<"g","e","m","i","n","i">> THEN NewGeminiProvider(config.APIKey, config.Model)
    ELSE IF config.Type = <<"o","p","e","n","a","i">> THEN NewOpenAIProvider(config.APIKey, config.Model)
    ELSE [provider |-> << >>, err |-> <<"unsupported provider type: ", config.Type>>]

\* (AIProvider, error): a nil provider or a nil error is << >>
NewAIProvider(config) ==
    IF config.APIKey = << >>
    THEN [provider |-> << >>, err |-> <<"API key is required">>]
    ELSE IF ToLower(config.Type) = <<"g","e","m","i","n","i">> THEN NewGeminiProvider(config.APIKey, config.Model)
    ELSE IF ToLower(config.Type) = <<"o","p","e","n","a","i">> THEN NewOpenAIProvider(config.APIKey, config.Model)
    ELSE [provider |-> << >>, err |-> <<"unsupported provider type: ", config.Type>>]

\* the outcomes of the LLM collaborator: the provider cannot be set up, the
\* generation fails, or a text comes back
LLMResponses ==
    {<<"{","\"","l","a","n","g","u","a","g","e","\"",":","\"","g","o","\"",",","\"","f","r","a","m","e","w","o","r","k","\"",":","\"","g","i","n","\"",",","\"","p","a","c","k","a","g","e","M","a","n","a","g","e","r","\"",":","\"","g","o"," ","m","o","d","u","l","e","s","\"",",","\"","b","u","i","l","d","T","o","o","l","\"",":","\"","\"","}">>,
     <<"grave","grave","grave","j","s","o","n","\n","{"," ","\"","l","a","n","g","u","a","g","e","\"",":"," ","\"","p","y","t","h","o","n","\"",","," ","\"","f","r","a","m","e","w","o","r","k","\"",":"," ","\"","\"",","," ","\"","p","a","c","k","a","g","e","M","a","n","a","g","e","r","\"",":"," ","\"","p","i","p","\"",","," ","\"","b","u","i","l","d","T","o","o","l","\"",":"," ","\"","\""," ","}","\n","grave","grave","grave">>,
     <<"grave","grave","grave","\n","{","\"","l","a","n","g","u","a","g","e","\"",":","\"","j","a","v","a","\"","}","\n","grave","grave","grave","\n">>,
     <<"{","\"","l","a","n","g","u","a","g","e","\"",":","\"","\"",",","\"","f","r","a","m","e","w","o","r","k","\"",":","\"","\"",",","\"","p","a","c","k","a","g","e","M","a","n","a","g","e","r","\"",":","\"","\"",",","\"","b","u","i","l","d","T","o","o","l","\"",":","\"","\"","}">>,
     <<"{","\"","l","a","n","g","u","a","g","e","\"",":","\"","\"",",","\"","f","r","a","m","e","w","o","r","k","\"",":","\"","r","a","i","l","s","\"",",","\"","b","u","i","l","d","T","o","o","l","\"",":","\"","m","a","k","e","\"","}">>,
     <<"{","}">>,
     <<"T","h","i","s"," ","l","o","o","k","s"," ","l","i","k","e"," ","a"," ","G","o"," ","p","r","o","j","e","c","t",".">>,
     <<"{","\"","l","a","n","g","u","a","g","e","\"",":","\"","r","u","s","t","\"",",">>,
     <<"grave","grave","grave","J","S","O","N","\n","{","\"","l","a","n","g","u","a","g","e","\"",":","\"","r","u","b","y","\"","}","\n","grave","grave","grave">>,
     <<>>}

LLMOutcomes ==
    {[kind |-> "provider error", text |-> << >>], [kind |-> "generate error", text |-> << >>]}
        \cup {[kind |-> "response", text |-> r] : r \in LLMResponses}

\* DetectProjectWithAI storing every field of the answer, empty or not
DetectProjectWithAIOverwriteAll(t, key, outcome) ==
    LET made == IF outcome.kind = "provider error"
                THEN [provider |-> << >>, err |-> <<"provider set-up failed">>]
                ELSE NewAIProvider([Type |-> <<"g","e","m","i","n","i">>, APIKey |-> key, Model |-> << >>])
        response == TrimSpace(TrimSuffix(TrimPrefix(TrimPrefix(TrimSpace(outcome.text),
                        <<"grave","grave","grave","j","s","o","n">>), <<"grave","grave","grave">>), <<"grave","grave","grave">>))
        aiResult == Unmarshal(response)
        t1 == [t EXCEPT !.Language = aiResult.Language]
        t2 == [t1 EXCEPT !.Framework = aiResult.Framework]
        t3 == [t2 EXCEPT !.PackageManager = aiResult.PackageManager]
        t4 == [t3 EXCEPT !.BuildTool = aiResult.BuildTool]
    IN  IF t.Language # <<"u","n","k","n","o","w","n">> /\ t.Language # << >>
        THEN [tech |-> t, err |-> << >>, calls |-> 0]
        ELSE IF made.err # << >>
        THEN [tech |-> t, err |-> <<"failed to create AI provider: ">> \o made.err, calls |-> 0]
        ELSE IF outcome.kind = "generate error"
        THEN [tech |-> t, err |-> <<"failed to generate content: ">>, calls |-> 1]
        ELSE IF aiResult.err
        THEN [tech |-> t, err |-> <<"failed to parse AI response: ">>, calls |-> 1]
        ELSE [tech |-> t4, err |-> << >>, calls |-> 1]

\* DetectProjectWithAI: the record, the error returned, and the calls of GenerateContent
DetectProjectWithAI(t, key, outcome) ==
    LET made == IF outcome.kind = "provider error"
                THEN [provider |-> << >>, err |-> <<"provider set-up failed">>]
                ELSE NewAIProvider([Type |-> <<"g","e","m","i","n","i">>, APIKey |-> key, Model |-> << >>])
        response == TrimSpace(TrimSuffix(TrimPrefix(TrimPrefix(TrimSpace(outcome.text),
                        <<"grave","grave","grave","j","s","o","n">>), <<"grave","grave","grave">>), <<"grave","grave","grave">>))
        aiResult == Unmarshal(response)
        t1 == IF aiResult.Language # << >> THEN [t EXCEPT !.Language = aiResult.Language] ELSE t
        t2 == IF aiResult.Framework # << >> THEN [t1 EXCEPT !.Framework = aiResult.Framework] ELSE t1
        t3 == IF aiResult.PackageManager # << >>
              THEN [t2 EXCEPT !.PackageManager = aiResult.PackageManager] ELSE t2
        t4 == IF aiResult.BuildTool # << >> THEN [t3 EXCEPT !.BuildTool = aiResult.BuildTool] ELSE t3
    IN  IF t.Language # <<"u","n","k","n","o","w","n">> /\ t.Language # << >>
        THEN [tech |-> t, err |-> << >>, calls |-> 0]
        ELSE IF made.err # << >>
        THEN [tech |-> t, err |-> <<"failed to create AI provider: ">> \o made.err, calls |-> 0]
        ELSE IF outcome.kind = "generate error"
        THEN [tech |-> t, err |-> <<"failed to generate content: ">>, calls |-> 1]
        ELSE IF aiResult.err
        THEN [tech |-> t, err |-> <<"failed to parse AI response: ">>, calls |-> 1]
        ELSE [tech |-> t4, err |-> << >>, calls |-> 1]

\* the extensions counted in the generated projects; ".md" is in no language
ProjectExts == {".js", ".jsx", ".ts", ".py", ".go", ".md"}

\* the files of the generated fallback projects
ConfigCatalog ==
    {"package.json", "requirements.txt", "Pipfile", "pyproject.toml", "go.mod", "Cargo.toml",
     "composer.json", "Makefile"}

Project(extensions, files, variant) ==
    [extensions |-> extensions, files |-> files, variant |-> variant]

\* source files only: every count of every extension
ExtensionProjects == {Project(e, {}, 1) : e \in [ProjectExts -> 0..MaxFiles]}

\* no source file of a known language: every set of config files
ConfigProjects ==
    {Project([e \in {".md"} |-> 1], F, v) : F \in SUBSET ConfigCatalog, v \in 1..3}

\* source files together with the files their detector reads
TypicalProjects ==
    {Project([e \in {".js"} |-> 2], {"package.json", "yarn.lock", "vite.config.js"}, 1),
     Project([e \in {".ts"} |-> 2], {"package.json", "pnpm-lock.yaml", "webpack.config.js"}, 3),
     Project([e \in {".js"} |-> 1], {"package.json"}, 2),
     Project([e \in {".js"} |-> 1], {"go.mod"}, 1),
     Project([e \in {".py"} |-> 2], {"requirements.txt", "manage.py"}, 1),
     Project([e \in {".py"} |-> 2], {"poetry.lock", "app.py"}, 1),
     Project([e \in {".py"} |-> 2], {"environment.yml", "app.py"}, 2),
     Project([e \in {".py"} |-> 1], {"main.py"}, 1),
     Project([e \in {".go"} |-> 2], {"go.mod", "go.sum"}, 1),
     Project([e \in {".go"} |-> 2], {"go.mod"}, 2),
     Project([e \in {".java"} |-> 2], {"pom.xml"}, 1),
     Project([e \in {".java"} |-> 2], {"pom.xml"}, 2),
     Project([e \in {".java"} |-> 2], {"build.gradle.kts"}, 1),
     Project([e \in {".rs"} |-> 2], {"Cargo.toml", "Cargo.lock"}, 2),
     Project([e \in {".php"} |-> 2], {"composer.json"}, 1),
     Project([e \in {".rb"} |-> 2], {"Gemfile"}, 1),
     Project([e \in {".cs"} |-> 2], {"app.csproj"}, 2),
     Project([e \in {".kt"} |-> 2], {"package.json", "build.gradle"}, 1),
     Project([e \in {".c", ".md"} |-> 1], {"Makefile", "CMakeLists.txt"}, 1)}

Projects == ExtensionProjects \cup ConfigProjects \cup TypicalProjects

InitProject ==
    /\ project \in Projects
    /\ apiKey \in {<< >>, <<"k","e","y">>}
    /\ tech = << >>
    /\ heuristic = << >>
    /\ llmCalls = 0
    /\ llmOutcome = << >>
    /\ jpc = "start"
    /\ LangIdle
    /\ CISIdle
    /\ CompareIdle
    /\ CreateIdle
    /\ ProviderIdle
    /\ AnalyzerIdle

\* DetectProject, steps 1 and 2: the range loop enumerates langCount in some order
DetectLanguage ==
    /\ jpc = "start"
    /\ \E order \in Orders(DOMAIN LangCount(project.extensions)) :
          tech' = [NewProjectTechnology(project) EXCEPT
                      !.FileExtensions = project.extensions,
                      !.Language = detectLanguageFromExtensions(project.extensions, order)]
    /\ jpc' = "language"
    /\ UNCHANGED <<project, apiKey, heuristic, llmCalls, llmOutcome, langVars, cisVars, cmpVars, genVars, facVars, aiVars>>

\* DetectProject, step 3
DetectConfigFiles ==
    /\ jpc = "language"
    /\ tech' = [tech EXCEPT !.ConfigFiles = detectConfigFiles(project)]
    /\ jpc' = "configs"
    /\ UNCHANGED <<project, apiKey, heuristic, llmCalls, llmOutcome, langVars, cisVars, cmpVars, genVars, facVars, aiVars>>

\* DetectProject, step 4, and its return
DetectTechnology ==
    /\ jpc = "configs"
    /\ tech' = DetectSpecific(project, tech)
    /\ heuristic' = tech'
    /\ jpc' = "heuristic"
    /\ UNCHANGED <<project, apiKey, llmCalls, llmOutcome, langVars, cisVars, cmpVars, genVars, facVars, aiVars>>

\* DetectProjectSmart returns the heuristic record without asking
ReturnHeuristic ==
    /\ jpc = "heuristic"
    /\ ~((tech.Language = <<"u","n","k","n","o","w","n">> \/ tech.Language = << >>) /\ apiKey # << >>)
    /\ jpc' = "done"
    /\ UNCHANGED <<project, apiKey, tech, heuristic, llmCalls, llmOutcome, langVars, cisVars, cmpVars, genVars, facVars, aiVars>>

\* DetectProjectSmart calls DetectProjectWithAI; its error is printed only
AskAI ==
    /\ jpc = "heuristic"
    /\ (tech.Language = <<"u","n","k","n","o","w","n">> \/ tech.Language = << >>) /\ apiKey # << >>
    /\ \E outcome \in LLMOutcomes :
          /\ tech' = DetectProjectWithAI(tech, apiKey, outcome).tech
          /\ llmCalls' = llmCalls + DetectProjectWithAI(tech, apiKey, outcome).calls
          /\ llmOutcome' = outcome
    /\ jpc' = "done"
    /\ UNCHANGED <<project, apiKey, heuristic, langVars, cisVars, cmpVars, genVars, facVars, aiVars>>

NextProject == DetectLanguage \/ DetectConfigFiles \/ DetectTechnology \/ ReturnHeuristic \/ AskAI

SpecProject == InitProject /\ [][NextProject]_vars

----------------------------------------------------------------------------
(* Dockerfile creation: Create, CreateDockerfileContent with               *)
(* getDockerfileContent, and CreateDockerfileWithLangChain. A template is  *)
(* written as the name of the function returning its text; the calls of    *)
(* the file system are taken to succeed.                                   *)

\* getFallbackDockerfile; hasBuild is what HasBuildCommand reads in package.json
getFallbackDockerfile(t, hasBuild) ==
    CASE t.Language \in {<<"j","a","v","a","s","c","r","i","p","t">>, <<"t","y","p","e","s","c","r","i","p","t">>} ->
            IF t.BuildTool = <<"v","i","t","e">> \/ t.Framework = <<"r","e","a","c","t">> \/ t.Framework = <<"v","u","e">>
            THEN <<"getViteDockerfileContent">>
            ELSE IF hasBuild THEN <<"getGenericDockerfileContentWithBuildStep">>
            ELSE <<"getGenericDockerfileContent">>
      [] t.Language = <<"p","y","t","h","o","n">> -> <<"getPythonDockerfileContent">>
      [] t.Language = <<"g","o">> -> <<"getGoDockerfileContent">>
      [] t.Language = <<"j","a","v","a">> -> <<"getJavaDockerfileContent">>
      [] t.Language = <<"r","u","s","t">> -> <<"getRustDockerfileContent">>
      [] t.Language = <<"p","h","p">> -> <<"getPHPDockerfileContent">>
      [] t.Language = <<"r","u","b","y">> -> <<"getRubyDockerfileContent">>
      [] OTHER -> <<"getGenericDockerfileContent">>

\* the outcomes of the LLM collaborator asked for a Dockerfile: the provider
\* cannot be set up, the generation fails, or a text comes back
GenOutcomes ==
    {[kind |-> "provider error", text |-> << >>], [kind |-> "generate error", text |-> << >>]}
        \cup {[kind |-> "response", text |-> r] :
                  r \in {<<"F","R","O","M"," ","n","o","d","e",":","2","0","-","a","l","p","i","n","e","\n","C","M","D"," ","[","\"","n","o","d","e","\"",","," ","\"","i","n","d","e","x",".","j","s","\"","]">>,
                         <<"grave","grave","grave","d","o","c","k","e","r","f","i","l","e","\n","F","R","O","M"," ","g","o","l","a","n","g",":","1",".","2","2","\n","grave","grave","grave">>,
                         <<"I"," ","c","a","n","n","o","t"," ","h","e","l","p"," ","w","i","t","h"," ","t","h","a","t",".">>,
                         <<>>}}

\* getDockerfileContent after DetectProjectSmart has returned t
getDockerfileContent(t, key, outcome, hasBuild) ==
    LET made == IF outcome.kind = "provider error"
                THEN [provider |-> << >>, err |-> <<"provider set-up failed">>]
                ELSE NewAIProvider([Type |-> <<"g","e","m","i","n","i">>, APIKey |-> key, Model |-> << >>])
    IN  IF made.err # << >> THEN getFallbackDockerfile(t, hasBuild)
        ELSE IF outcome.kind = "generate error" THEN getFallbackDockerfile(t, hasBuild)
        ELSE TrimSpace(TrimSuffix(TrimPrefix(TrimPrefix(TrimSpace(outcome.text),
                 <<"grave","grave","grave","d","o","c","k","e","r","f","i","l","e">>), <<"grave","grave","grave">>), <<"grave","grave","grave">>))

\* the directories Create is run in
CreateProjects == ConfigProjects \cup TypicalProjects

InitCreate ==
    /\ project \in CreateProjects
    /\ apiKey \in {<< >>, <<"k","e","y">>}
    /\ useLangChain \in BOOLEAN
    /\ tech = << >>
    /\ heuristic = << >>
    /\ llmCalls = 0
    /\ llmOutcome = << >>
    /\ jpc = "idle"
    /\ created = << >>
    /\ fatal = << >>
    /\ genOutcome = << >>
    /\ gpc = "start"
    /\ LangIdle
    /\ CISIdle
    /\ CompareIdle
    /\ ProviderIdle
    /\ AnalyzerIdle

\* CreateDockerfileContent up to the call of DetectProjectSmart: os.Create
\* leaves an empty file, an empty config.APIKey ends the process
CreateDockerfileContent ==
    /\ gpc = "start"
    /\ ~useLangChain
    /\ created' = << << >> >>
    /\ IF apiKey = << >>
       THEN /\ fatal' = <<"API key not set in binary. Please rebuild with -ldflags">>
            /\ gpc' = "fatal"
            /\ jpc' = jpc
       ELSE /\ fatal' = fatal
            /\ gpc' = "detect"
            /\ jpc' = "start"
    /\ UNCHANGED <<project, apiKey, tech, heuristic, llmCalls, llmOutcome, useLangChain, genOutcome,
                   langVars, cisVars, cmpVars, facVars, aiVars>>

\* CreateDockerfileWithLangChain up to the call of DetectProjectSmart
CreateDockerfileWithLangChain ==
    /\ gpc = "start"
    /\ useLangChain
    /\ IF apiKey = << >>
       THEN /\ fatal' = <<"API key not set in binary. Please rebuild with -ldflags">>
            /\ gpc' = "fatal"
            /\ jpc' = jpc
       ELSE /\ fatal' = fatal
            /\ gpc' = "detect"
            /\ jpc' = "start"
    /\ UNCHANGED <<project, apiKey, tech, heuristic, llmCalls, llmOutcome, useLangChain, created,
                   genOutcome, langVars, cisVars, cmpVars, facVars, aiVars>>

\* getDockerfileContent from the provider on, and f.WriteString(content)
WriteDockerfileContent ==
    /\ gpc = "detect"
    /\ jpc = "done"
    /\ ~useLangChain
    /\ \E outcome \in GenOutcomes, hasBuild \in BOOLEAN :
          /\ created' = <<getDockerfileContent(tech, apiKey, outcome, hasBuild)>>
          /\ genOutcome' = outcome
    /\ gpc' = "done"
    /\ UNCHANGED <<fatal, useLangChain, projVars, langVars, cisVars, cmpVars, facVars, aiVars>>

\* CreateDockerfileWithLangChain from openai.New on: both errors end the
\* process, the response is written as it came
WriteWithLangChain ==
    /\ gpc = "detect"
    /\ jpc = "done"
    /\ useLangChain
    /\ \E outcome \in GenOutcomes :
          /\ genOutcome' = outcome
          /\ IF outcome.kind = "provider error"
             THEN /\ fatal' = <<"openai.New failed">>
                  /\ gpc' = "fatal"
                  /\ created' = created
             ELSE IF outcome.kind = "generate error"
             THEN /\ fatal' = <<"llms.GenerateFromSinglePrompt failed">>
                  /\ gpc' = "fatal"
                  /\ created' = created
             ELSE /\ fatal' = fatal
                  /\ gpc' = "done"
                  /\ created' = <<outcome.text>>
    /\ UNCHANGED <<useLangChain, projVars, langVars, cisVars, cmpVars, facVars, aiVars>>

NextCreate ==
    \/ CreateDockerfileContent
    \/ CreateDockerfileWithLangChain
    \/ DetectLanguage
    \/ DetectConfigFiles
    \/ DetectTechnology
    \/ ReturnHeuristic
    \/ AskAI
    \/ WriteDockerfileContent
    \/ WriteWithLangChain

SpecCreate == InitCreate /\ [][NextCreate]_vars

----------------------------------------------------------------------------
(* The provider factory, called with every configuration.                  *)

\* ProviderConfig values: twelve types, three keys, three models
ProviderConfigs ==
    {[Type |-> t, APIKey |-> k, Model |-> m] :
        t \in {<<"g","e","m","i","n","i">>, <<"o","p","e","n","a","i">>, <<"G","e","m","i","n","i">>, <<"O","P","E","N","A","I">>, <<"G","e","M","i","N","i">>, <<"O","p","e","n","A","I">>, <<"c","l","a","u","d","e">>, <<>>,
               <<"g","e","m","i","n","i"," ">>, <<"o","p","e","n","-","a","i">>, <<"g","e","m","i","n","i","o","p","e","n","a","i">>, <<"u","n","k","n","o","w","n">>},
        k \in {<< >>, <<"k","e","y">>, <<" ">>},
        m \in {<< >>, <<"g","p","t","-","4",".","1","-","m","i","n","i">>, <<"g","e","m","i","n","i","-","2",".","0","-","f","l","a","s","h">>}}

InitProvider ==
    /\ providerConfig \in ProviderConfigs
    /\ provider = << >>
    /\ fpc = "start"
    /\ LangIdle
    /\ CISIdle
    /\ CompareIdle
    /\ ProjectIdle
    /\ CreateIdle
    /\ AnalyzerIdle

\* provider, err := ai.NewAIProvider(providerConfig)
CallNewAIProvider ==
    /\ fpc = "start"
    /\ provider' = NewAIProvider(providerConfig)
    /\ fpc' = "done"
    /\ UNCHANGED <<providerConfig, langVars, cisVars, cmpVars, projVars, genVars, aiVars>>

NextProvider == CallNewAIProvider

SpecProvider == InitProvider /\ [][NextProvider]_vars

----------------------------------------------------------------------------
(* ai: the AIAnalyzer, which describes images to the LLM collaborator.     *)

\* longest environment list of an image handed to the AIAnalyzer
MaxAnalyzerEnv == 2

\* fmt's %d for a natural number
RECURSIVE FormatInt(_)
FormatInt(n) ==
    IF n < 10 THEN <<Digits[n + 1]>> ELSE FormatInt(n \div 10) \o <<Digits[(n % 10) + 1]>>

\* fmt's %.2f of the quotient size / unit, for a unit that is a multiple of
\* 200; the sizes of the model lie on no rounding boundary
FormatQuotient(size, unit) ==
    LET hundredths == (size + unit \div 200) \div (unit \div 100)
    IN  FormatInt(hundredths \div 100) \o <<".">>
            \o <<Digits[((hundredths \div 10) % 10) + 1], Digits[(hundredths % 10) + 1]>>

\* fmt's %v for a []string
FormatStrings(elems) == <<"[">> \o Join(elems, <<" ">>) \o <<"]">>

\* the loop over the environment list: the first entry that carries a prefix
\* of the table decides, << >> is the empty string
RECURSIVE FirstDetected(_, _)
FirstDetected(envVars, table) ==
    IF envVars = << >> THEN << >>
    ELSE LET env == Head(envVars)
             hit == {i \in 1..Len(table) : \E k \in 1..Len(table[i].prefixes) :
                                                HasPrefix(env, table[i].prefixes[k])}
         IN  IF hit = {} THEN FirstDetected(Tail(envVars), table)
             ELSE LET row == table[CHOOSE i \in hit : \A j \in hit : i <= j]
                      version == IF Len(row.prefixes) = 1
                                 THEN TrimPrefix(env, row.prefixes[1])
                                 ELSE TrimPrefix(TrimPrefix(env, row.prefixes[1]), row.prefixes[2])
                  IN  row.name \o <<" ">> \o version

\* the if statements of detectLanguageFromEnv, top to bottom
LanguagePrefixes ==
    << [prefixes |-> <<<<"N","O","D","E","_","V","E","R","S","I","O","N","=">>>>, name |-> <<"N","o","d","e",".","j","s">>],
       [prefixes |-> <<<<"P","Y","T","H","O","N","_","V","E","R","S","I","O","N","=">>>>, name |-> <<"P","y","t","h","o","n">>],
       [prefixes |-> <<<<"J","A","V","A","_","V","E","R","S","I","O","N","=">>>>, name |-> <<"J","a","v","a">>],
       [prefixes |-> <<<<"G","O","_","V","E","R","S","I","O","N","=">>, <<"G","O","L","A","N","G","_","V","E","R","S","I","O","N","=">>>>, name |-> <<"G","o">>],
       [prefixes |-> <<<<"P","H","P","_","V","E","R","S","I","O","N","=">>>>, name |-> <<"P","H","P">>],
       [prefixes |-> <<<<"R","U","B","Y","_","V","E","R","S","I","O","N","=">>>>, name |-> <<"R","u","b","y">>],
       [prefixes |-> <<<<"D","O","T","N","E","T","_","V","E","R","S","I","O","N","=">>>>, name |-> <<".","N","E","T">>],
       [prefixes |-> <<<<"R","U","S","T","_","V","E","R","S","I","O","N","=">>>>, name |-> <<"R","u","s","t">>] >>

detectLanguageFromEnv(envVars) == FirstDetected(envVars, LanguagePrefixes)

\* the condition under which buildImageContext leaves an entry out
IsSensitive(env) ==
    \/ Contains(ToUpper(env), <<"P","A","S","S","W","O","R","D">>)
    \/ Contains(ToUpper(env), <<"S","E","C","R","E","T">>)
    \/ Contains(ToUpper(env), <<"T","O","K","E","N">>)

RECURSIVE BulletLines(_)
BulletLines(elems) ==
    IF elems = << >> THEN << >>
    ELSE <<" "," ","-"," ">> \o Head(elems) \o <<"\n">> \o BulletLines(Tail(elems))

\* the "Environment Variables" section
EnvironmentSection(envVars) ==
    <<"\n","E","n","v","i","r","o","n","m","e","n","t"," ","V","a","r","i","a","b","l","e","s",":","\n">> \o BulletLines(SelectSeq(envVars, LAMBDA env : ~IsSensitive(env)))

\* the "Language" line
LanguageLine(envVars) ==
    LET language == detectLanguageFromEnv(envVars)
    IN  IF language # << >> THEN <<"L","a","n","g","u","a","g","e",":"," ">> \o language \o <<"\n">>
        ELSE <<"L","a","n","g","u","a","g","e",":"," ","N","o","n","e"," ","d","e","t","e","c","t","e","d","\n">>

\* ports is Config.ExposedPorts in the order the range loop enumerates the
\* map; the sign that stands before "running as root" is the character
\* written "warning"
buildImageContext(imageInspect_, imageName, ports) ==
    <<"I","m","a","g","e"," ","N","a","m","e",":"," ">> \o imageName \o <<"\n">>
    \o <<"T","a","g","s",":"," ">> \o FormatStrings(imageInspect_.RepoTags) \o <<"\n">>
    \o (IF imageInspect_.Size > 1000 * 1000000
        THEN <<"S","i","z","e",":"," ">> \o FormatQuotient(imageInspect_.Size, 1000000000) \o <<" ","G","B","\n">>
        ELSE <<"S","i","z","e",":"," ">> \o FormatQuotient(imageInspect_.Size, 1000000) \o <<" ","M","B","\n">>)
    \o <<"L","a","y","e","r","s",":"," ">> \o FormatInt(imageInspect_.Layers) \o <<"\n">>
    \o <<"O","S",":"," ">> \o imageInspect_.Os \o <<"\n">>
    \o <<"A","r","c","h","i","t","e","c","t","u","r","e",":"," ">> \o imageInspect_.Architecture \o <<"\n">>
    \o LanguageLine(imageInspect_.Env)
    \o EnvironmentSection(imageInspect_.Env)
    \o (IF Len(imageInspect_.Cmd) > 0
        THEN <<"\n","C","m","d",":"," ">> \o FormatStrings(imageInspect_.Cmd) \o <<"\n">> ELSE << >>)
    \o (IF Len(imageInspect_.Entrypoint) > 0
        THEN <<"E","n","t","r","y","p","o","i","n","t",":"," ">> \o FormatStrings(imageInspect_.Entrypoint) \o <<"\n">> ELSE << >>)
    \o (IF imageInspect_.WorkingDir # << >>
        THEN <<"W","o","r","k","i","n","g"," ","D","i","r","e","c","t","o","r","y",":"," ">> \o imageInspect_.WorkingDir \o <<"\n">> ELSE << >>)
    \o (IF Len(ports) > 0 THEN <<"\n","E","x","p","o","s","e","d"," ","P","o","r","t","s",":","\n">> \o BulletLines(ports) ELSE << >>)
    \o (IF imageInspect_.User # << >>
        THEN <<"\n","U","s","e","r",":"," ">> \o imageInspect_.User \o <<"\n">>
        ELSE <<"\n","U","s","e","r",":"," ","r","o","o","t"," ","(">> \o <<"warning">> \o <<" "," ","r","u","n","n","i","n","g"," ","a","s"," ","r","o","o","t",")","\n">>)

\* environment entries: two that are disclosed, one of them a version
\* variable, and two holding a credential, one of them a version variable
AnalyzerEnvCatalog ==
    {<<"P","A","T","H","=","/","b","i","n">>, <<"N","O","D","E","_","V","E","R","S","I","O","N","=","1","8">>, <<"d","b","_","p","a","s","s","w","o","r","d","=","x">>, <<"P","Y","T","H","O","N","_","V","E","R","S","I","O","N","=","3","-","s","e","c","r","e","t">>}

\* the environment lists of at most n entries, each entry at most once
RECURSIVE AnalyzerEnvLists(_)
AnalyzerEnvLists(n) ==
    IF n = 0 THEN {<< >>}
    ELSE LET shorter == AnalyzerEnvLists(n - 1)
             longest == {k \in shorter : Len(k) = n - 1}
         IN  shorter \cup UNION {{Append(l, e) : e \in AnalyzerEnvCatalog \ {l[i] : i \in 1..Len(l)}} :
                                    l \in longest}

\* a bare image of 5 MiB and a served one of 1.5 GB
AnalyzerImages ==
    {[Name |-> <<"a","p","p">>, RepoTags |-> << >>, Size |-> 5242880, Layers |-> 1, Os |-> <<"l","i","n","u","x">>,
      Architecture |-> <<"a","m","d","6","4">>, Env |-> env, Cmd |-> << >>, Entrypoint |-> << >>,
      WorkingDir |-> << >>, ExposedPorts |-> {}, User |-> << >>] :
        env \in AnalyzerEnvLists(MaxAnalyzerEnv)}
    \cup
    {[Name |-> <<"w","e","b">>, RepoTags |-> <<<<"w","e","b",":","1">>, <<"w","e","b",":","l","a","t","e","s","t">>>>, Size |-> 1500000000,
      Layers |-> 12, Os |-> <<"l","i","n","u","x">>, Architecture |-> <<"a","r","m","6","4">>, Env |-> env,
      Cmd |-> <<<<"-","p">>, <<"8","0">>>>, Entrypoint |-> <<<<"s","e","r","v","e">>>>, WorkingDir |-> <<"/","s","r","v">>,
      ExposedPorts |-> {<<"8","0","/","t","c","p">>, <<"4","4","3","/","t","c","p">>}, User |-> <<"w","w","w">>] :
        env \in AnalyzerEnvLists(MaxAnalyzerEnv)}

InitAnalyzer ==
    /\ analyzed \in AnalyzerImages \X AnalyzerImages
    /\ contexts = << >>
    /\ comparison = << >>
    /\ apc = "start"
    /\ LangIdle
    /\ CISIdle
    /\ CompareIdle
    /\ ProjectIdle
    /\ CreateIdle
    /\ ProviderIdle

\* context1 := a.buildImageContext(image1Inspect, image1Name)
BuildContext1 ==
    /\ apc = "start"
    /\ \E ports \in Orders(analyzed[1].ExposedPorts) :
        contexts' = <<buildImageContext(analyzed[1], analyzed[1].Name, ports)>>
    /\ apc' = "context1"
    /\ UNCHANGED <<analyzed, comparison, langVars, cisVars, cmpVars, projVars, genVars, facVars>>

\* context2 := a.buildImageContext(image2Inspect, image2Name)
BuildContext2 ==
    /\ apc = "context1"
    /\ \E ports \in Orders(analyzed[2].ExposedPorts) :
        contexts' = Append(contexts, buildImageContext(analyzed[2], analyzed[2].Name, ports))
    /\ apc' = "prompt"
    /\ UNCHANGED <<analyzed, comparison, langVars, cisVars, cmpVars, projVars, genVars, facVars>>

\* response, err := llms.GenerateFromSinglePrompt(ctx, a.llm, prompt): the
\* collaborator answers or fails
GenerateComparison ==
    /\ apc = "prompt"
    /\ comparison' \in {<<"response">>, <<"error">>}
    /\ apc' = "done"
    /\ UNCHANGED <<analyzed, contexts, langVars, cisVars, cmpVars, projVars, genVars, facVars>>

NextAnalyzer == BuildContext1 \/ BuildContext2 \/ GenerateComparison

SpecAnalyzer == InitAnalyzer /\ [][NextAnalyzer]_vars

----------------------------------------------------------------------------
(* What the claims speak of, stated on the inputs themselves.              *)

Env == imageInspect.Env

HasEnv(entry) == \E i \in 1..Len(Env) : Env[i] = entry

HasEnvPrefix(prefix) == \E i \in 1..Len(Env) : HasPrefix(Env[i], prefix)

\* the text after the first "=" of an environment entry
ValueOf(entry) == SubSeq(entry, Index(entry, <<"=">>) + 1, Len(entry))

\* the text before the first "." of a version string
FirstToken(version) ==
    IF Index(version, <<".">>) = 0 THEN version ELSE SubSeq(version, 1, Index(version, <<".">>) - 1)

\* the version string is the decimal numeral of M, alone or followed by "."
HasMajor(version, M) == version = Itoa(M) \/ HasPrefix(version, Itoa(M) \o <<".">>)

\* the numerals Itoa writes
Numbers == 0..99

HasNumericMajor(version) == \E M \in Numbers : HasMajor(version, M)

MajorOf(version) == CHOOSE M \in Numbers : HasMajor(version, M)

\* the second component is the decimal numeral of m, alone or followed by "."
HasMinor(version, m) ==
    LET head == Itoa(MajorOf(version)) \o <<".">> \o Itoa(m)
    IN  version = head \/ HasPrefix(version, head \o <<".">>)

\* the minor component, 0 when it is missing or not a number
MinorOf(version) ==
    IF \E m \in Numbers : HasMinor(version, m)
    THEN CHOOSE m \in Numbers : HasMinor(version, m)
    ELSE 0

IsDecimal(token) == token # << >> /\ \A i \in 1..Len(token) : IsDigit(token[i])

TierRank(color) == CASE color = "error" -> 0 [] color = "warning" -> 1 [] color = "success" -> 2

Detected == lpc = "done" /\ lang # << >>

\* a detector's version string as the LanguageInfo the cascade builds from it
EnvResult(name, version, color) ==
    IF version = << >> THEN << >> ELSE <<LanguageInfo(name, version, color)>>

\* what each of the ten detectors finds, in the documented order
DetectorResults(img) ==
    <<EnvResult("Node.js", detectNodeJSVersion(img.Env), getNodeJSColor(detectNodeJSVersion(img.Env))),
      EnvResult("Python", detectPythonVersion(img.Env), getPythonColor(detectPythonVersion(img.Env))),
      EnvResult("Java", detectJavaVersion(img.Env), getJavaColor(detectJavaVersion(img.Env))),
      EnvResult("Go", detectGoVersion(img.Env), getGoColor(detectGoVersion(img.Env))),
      EnvResult("PHP", detectPHPVersion(img.Env), getPHPColor(detectPHPVersion(img.Env))),
      EnvResult("Ruby", detectRubyVersion(img.Env), getRubyColor(detectRubyVersion(img.Env))),
      EnvResult(".NET", detectDotNetVersion(img.Env), getDotNetColor(detectDotNetVersion(img.Env))),
      EnvResult("Rust", detectRustVersion(img.Env), "success"),
      detectByCommand(img.Cmd, img.Entrypoint),
      detectCompiledBinary(img.Entrypoint, img.Cmd, img.WorkingDir, img.Size)>>

\* the detectors that find a language
Matching(img) ==
    LET found == DetectorResults(img)
    IN  {k \in 1..10 : found[k] # << >>}

\* what the earliest of them finds, nil when none finds any
FirstMatch(img) ==
    LET found == DetectorResults(img)
        matching == {k \in 1..10 : found[k] # << >>}
    IN  IF matching = {} THEN << >>
        ELSE found[CHOOSE k \in matching : \A j \in matching : k <= j]

\* no entry of the environment names a runtime that precedes Go in the cascade
NothingBeforeGo ==
    /\ ~HasEnvPrefix(<<"N","O","D","E","_","V","E","R","S","I","O","N","=">>)
    /\ ~HasEnvPrefix(<<"P","Y","T","H","O","N","_","V","E","R","S","I","O","N","=">>)
    /\ ~HasEnvPrefix(<<"J","A","V","A","_","V","E","R","S","I","O","N","=">>)
    /\ ~HasEnvPrefix(<<"J","A","V","A","_","H","O","M","E","=">>)

----------------------------------------------------------------------------
(* C1: DetectPrimaryLanguage returns what the first matching detector of   *)
(* the order Node.js, Python, Java, Go, PHP, Ruby, .NET, Rust, command,    *)
(* compiled binary finds, wherever the variables stand in the env list:    *)
(* NODE_VERSION=18.0.0 with GOPATH=/go gives Node.js, and                  *)
(* GOLANG_VERSION=1.21.0 with a small /app/main binary gives Go 1.21.0.    *)
C1_FirstMatchingDetectorWins ==
    lpc = "done" =>
        /\ lang = FirstMatch(imageInspect)
        /\ (HasEnv(<<"N","O","D","E","_","V","E","R","S","I","O","N","=","1","8",".","0",".","0">>) /\ HasEnv(<<"G","O","P","A","T","H","=","/","g","o">>) /\ ~HasEnv(<<"N","O","D","E","_","V","E","R","S","I","O","N","=">>))
              => (lang # << >> /\ lang[1].Name = "Node.js")
        /\ (/\ HasEnv(<<"G","O","L","A","N","G","_","V","E","R","S","I","O","N","=","1",".","2","1",".","0">>) /\ NothingBeforeGo
            /\ ~HasEnv(<<"G","O","L","A","N","G","_","V","E","R","S","I","O","N","=">>) /\ ~HasEnvPrefix(<<"G","O","_","V","E","R","S","I","O","N","=">>)
            /\ imageInspect.Entrypoint = <<<<"/","a","p","p","/","m","a","i","n">>>>)
              => lang = <<LanguageInfo("Go", <<"1",".","2","1",".","0">>, "success")>>

C1_Witness ==
    /\ lpc = "done"
    /\ Cardinality(Matching(imageInspect)) >= 2
    /\ Env = <<<<"G","O","P","A","T","H","=","/","g","o">>, <<"N","O","D","E","_","V","E","R","S","I","O","N","=","1","8",".","0",".","0">>>>
    /\ imageInspect.Entrypoint = <<<<"/","a","p","p","/","m","a","i","n">>>>
    /\ lang = <<LanguageInfo("Node.js", <<"1","8",".","0",".","0">>, "success")>>

RegisteredRuleIDs ==
    <<"CIS-1.1", "CIS-1.2", "CIS-4.1", "CIS-5.1", "CIS-4.6", "CIS-5.2", "CIS-6.1", "CIS-7.1",
      "CIS-8.1", "CIS-9.1">>

(* C2: for every Dockerfile text Analyze ends normally and returns the     *)
(* results of the ten registered rules, in registration order.             *)
C2_AnalyzeReturnsTenResults ==
    /\ cpc # "panic"
    /\ cpc = "print" => [i \in 1..Len(results) |-> results[i].RuleID] = RegisteredRuleIDs

PassedCount == Cardinality({i \in 1..Len(results) : results[i].Passed})

(* C3: the printed score is passed * 100 / total with integer division;    *)
(* with ten results it is ten times the number of passed results, whatever *)
(* their order and severities.                                             *)
C3_ScoreIsPassedTimesTen ==
    (cpc = "done" /\ percent # -1) =>
        /\ Len(results) = 10
        /\ percent = (PassedCount * 100) \div Len(results)
        /\ percent = PassedCount * 10
        /\ percent \in {10 * k : k \in 0..10}

C3_Witness ==
    /\ cpc = "done"
    /\ percent = 40
    /\ \E i, j \in 1..Len(results) :
          /\ ~results[i].Passed /\ ~results[j].Passed
          /\ results[i].Severity = "HIGH" /\ results[j].Severity = "LOW"

NoFromLine == \A i \in 1..Len(Split(dockerfile, <<"\n">>)) : ~IsFromLine(Split(dockerfile, <<"\n">>)[i])

(* C4: a Dockerfile without any FROM line is analysed to the end: CIS-1.1  *)
(* fails with HIGH and "No FROM instruction found", CIS-1.2 fails, CIS-7.1 *)
(* fails with MEDIUM, and all ten rules are evaluated.                     *)
C4_NoFromIsARuleFailure ==
    NoFromLine =>
        /\ cpc # "panic"
        /\ cpc \in {"print", "done"} /\ results # << >> =>
              /\ Len(results) = 10
              /\ results[1].RuleID = "CIS-1.1" /\ ~results[1].Passed
              /\ results[1].Severity = "HIGH"
              /\ results[1].Message = "No FROM instruction found"
              /\ results[2].RuleID = "CIS-1.2" /\ ~results[2].Passed
              /\ results[8].RuleID = "CIS-7.1" /\ ~results[8].Passed
              /\ results[8].Severity = "MEDIUM"

C4_Witness ==
    /\ cpc = "done"
    /\ NoFromLine
    /\ Contains(dockerfile, <<"U","S","E","R"," ","a","p","p">>)
    /\ Len(results) = 10
    /\ percent > 0

Severities == {"LOW", "MEDIUM", "HIGH"}

(* C5: every failed CISResult carries a rule ID and one of the severities  *)
(* LOW, MEDIUM, HIGH, so a failed rule is never printed without severity.  *)
C5_FailedResultsHaveSeverity ==
    /\ \A i \in 1..Len(results) :
          ~results[i].Passed => (results[i].Severity \in Severities /\ results[i].RuleID # "")
    /\ \A i \in 1..Len(printed) : printed[i].Severity \in Severities

FromNodeVersion ==
    /\ Detected
    /\ lang[1].Name = "Node.js"
    /\ detectNodeJSVersion(Env) # << >>

(* C6: Node.js from NODE_VERSION with numeric major m is error for m < 14, *)
(* warning for 14..16, success from 17 on; the tier does not decrease when *)
(* m grows and is the same for every version string of major m.            *)
C6_NodeTiers ==
    (FromNodeVersion /\ HasNumericMajor(lang[1].Version)) =>
        LET m == MajorOf(lang[1].Version)
        IN  /\ lang[1].Color = IF m < 14 THEN "error" ELSE IF m <= 16 THEN "warning" ELSE "success"
            /\ getNodeJSColor(Itoa(m)) = lang[1].Color
            /\ getNodeJSColor(Itoa(m) \o <<".","9","9",".","1">>) = lang[1].Color
            /\ TierRank(getNodeJSColor(Itoa(m + 1))) >= TierRank(lang[1].Color)
            /\ lang[1].Version = <<"1","2",".","0",".","0">> => lang[1].Color = "error"
            /\ lang[1].Version \in {<<"1","4",".","0",".","0">>, <<"1","6",".","0",".","0">>} => lang[1].Color = "warning"
            /\ lang[1].Version = <<"1","8",".","0",".","0">> => lang[1].Color = "success"

C6_Witness ==
    /\ FromNodeVersion
    /\ lang[1].Version = <<"1","6",".","2","0",".","0">>
    /\ lang[1].Color = "warning"

FromPythonVersion ==
    /\ Detected
    /\ lang[1].Name = "Python"
    /\ detectPythonVersion(Env) # << >>

(* C7: Python from PYTHON_VERSION is error for major < 3, warning for      *)
(* major 3 with minor < 8, success otherwise.                              *)
C7_PythonTiers ==
    (FromPythonVersion /\ HasNumericMajor(lang[1].Version)) =>
        LET M == MajorOf(lang[1].Version)
            m == MinorOf(lang[1].Version)
        IN  /\ lang[1].Color = IF M < 3 THEN "error"
                               ELSE IF M = 3 /\ m < 8 THEN "warning"
                               ELSE "success"
            /\ lang[1].Version = <<"2",".","7",".","1","8">> => lang[1].Color = "error"
            /\ lang[1].Version = <<"3",".","7",".","0">> => lang[1].Color = "warning"
            /\ lang[1].Version = <<"3",".","1","1",".","2">> => lang[1].Color = "success"

C7_Witness ==
    /\ FromPythonVersion
    /\ lang[1].Version = <<"4",".","2",".","0">>
    /\ lang[1].Color = "success"

IsExplicitGo(entry) == HasPrefix(entry, <<"G","O","L","A","N","G","_","V","E","R","S","I","O","N","=">>) \/ HasPrefix(entry, <<"G","O","_","V","E","R","S","I","O","N","=">>)

FromGoEnv ==
    /\ Detected
    /\ lang[1].Name = "Go"
    /\ detectGoVersion(Env) # << >>

(* C8: Go from the environment: the sentinels give success; otherwise      *)
(* error for major < 1, warning for major 1 with minor < 19, success       *)
(* otherwise.  The value of the first GOLANG_VERSION or GO_VERSION entry   *)
(* is the version, wherever GOPATH stands; GOPATH alone gives "detected".  *)
C8_GoTiers ==
    FromGoEnv =>
        LET v == lang[1].Version
        IN  /\ v \in Sentinels => lang[1].Color = "success"
            /\ HasNumericMajor(v) =>
                  lang[1].Color = IF MajorOf(v) < 1 THEN "error"
                                  ELSE IF MajorOf(v) = 1 /\ MinorOf(v) < 19 THEN "warning"
                                  ELSE "success"
            /\ v = <<"1",".","1","6",".","0">> => lang[1].Color = "warning"
            /\ v = <<"1",".","2","1",".","0">> => lang[1].Color = "success"
            /\ \A i \in 1..Len(Env) :
                  (IsExplicitGo(Env[i]) /\ \A j \in 1..(i - 1) : ~IsExplicitGo(Env[j]))
                      => v = ValueOf(Env[i])
            /\ (\A i \in 1..Len(Env) : ~IsExplicitGo(Env[i])) => v = <<"d","e","t","e","c","t","e","d">>

C8_Witness ==
    /\ FromGoEnv
    /\ Env = <<<<"G","O","P","A","T","H","=","/","g","o">>, <<"G","O","_","V","E","R","S","I","O","N","=","1",".","1","6",".","0">>>>
    /\ lang = <<LanguageInfo("Go", <<"1",".","1","6",".","0">>, "warning")>>

(* C9: for the versions "detected" and "unknown" the tier is the default   *)
(* of the runtime (warning for Node.js, Python, Java, PHP, Ruby and .NET,  *)
(* success for Go), never the error tier of a major version 0.             *)
C9_SentinelBeforeParsing ==
    (Detected /\ lang[1].Version \in {<<"d","e","t","e","c","t","e","d">>, <<"u","n","k","n","o","w","n">>}) =>
        /\ lang[1].Name \in {"Node.js", "Python", "Java", "PHP", "Ruby", ".NET"}
              => lang[1].Color = "warning"
        /\ lang[1].Name = "Go" => lang[1].Color = "success"
        /\ lang[1].Color # "error"

C9_Witness ==
    /\ Detected
    /\ Env = <<<<"N","O","D","E","_","V","E","R","S","I","O","N","=","d","e","t","e","c","t","e","d">>>>
    /\ lang = <<LanguageInfo("Node.js", <<"d","e","t","e","c","t","e","d">>, "warning")>>

MalformedDetected ==
    /\ Detected
    /\ lang[1].Version \notin Sentinels
    /\ ~IsDecimal(FirstToken(lang[1].Version))

\* the text between the first and the second "." of a version string; none
\* when the string has no "."
HasSecondToken(version) == Index(version, <<".">>) # 0

SecondToken(version) ==
    FirstToken(SubSeq(version, Index(version, <<".">>) + 1, Len(version)))

(* C10: a version that is no sentinel and whose first token is not an      *)
(* integer parses to major 0 (and minor 0 when the second token is missing *)
(* or not a number); the language is reported with its lowest tier: error  *)
(* for Node.js, Python, Java, Go, PHP and Ruby, warning for .NET.          *)
C10_MalformedVersionLowestTier ==
    /\ (Detected /\ (~HasSecondToken(lang[1].Version) \/ ~IsDecimal(SecondToken(lang[1].Version))))
          => getMinorVersion(lang[1].Version) = 0
    /\ MalformedDetected =>
        /\ getMajorVersion(lang[1].Version) = 0
        /\ lang[1].Name \in {"Node.js", "Python", "Java", "Go", "PHP", "Ruby"}
              => lang[1].Color = "error"
        /\ lang[1].Name = ".NET" => lang[1].Color = "warning"

C10_Witness ==
    /\ MalformedDetected
    /\ Env = <<<<"J","A","V","A","_","H","O","M","E","=","/","u","s","r","/","l","i","b","/","j","v","m","/","j","a","v","a","-","1","7","-","o","p","e","n","j","d","k">>>>
    /\ lang = <<LanguageInfo("Java", <<"1","7","-","o","p","e","n","j","d","k">>, "error")>>

\* the language Detect found has the tier error or warning
Outdated == lang # << >> /\ lang[1].Color \in {"error", "warning"}

\* the closing words of a suggestion
WordingOf(suggestion) == suggestion[Len(suggestion)]

(* C11: HasOutdatedLanguage is true exactly when a language is detected    *)
(* with the tier error or warning; GetLanguageImprovementSuggestions       *)
(* returns exactly one suggestion in that case and none otherwise; the     *)
(* suggestion names the runtime and is worded for the case: upgrade for    *)
(* security on error, version could not be determined on warning with the  *)
(* version "unknown", approaching end-of-life on any other warning.        *)
C11_OutdatedIffOneSuggestion ==
    lpc = "suggested" =>
        /\ hasOutdatedLanguage = Outdated
        /\ Len(languageSuggestions) = (IF Outdated THEN 1 ELSE 0)
        /\ Outdated =>
              /\ languageSuggestions[1][2] = lang[1].Name
              /\ lang[1].Color = "error" =>
                    /\ WordingOf(languageSuggestions[1]) =
                          " is outdated and may have security vulnerabilities. Consider upgrading to a newer version."
                    /\ languageSuggestions[1][4] = lang[1].Version
              /\ (lang[1].Color = "warning" /\ lang[1].Version = <<"u","n","k","n","o","w","n">>) =>
                    WordingOf(languageSuggestions[1]) =
                        " runtime detected but version could not be determined. Consider using official base images with explicit version tags."
              /\ (lang[1].Color = "warning" /\ lang[1].Version # <<"u","n","k","n","o","w","n">>) =>
                    /\ WordingOf(languageSuggestions[1]) =
                          " is approaching end-of-life. Consider upgrading to ensure continued support."
                    /\ languageSuggestions[1][4] = lang[1].Version

C11_Witness ==
    /\ lpc = "suggested"
    /\ lang = <<LanguageInfo("Node.js", <<"1","6",".","0",".","0">>, "warning")>>
    /\ hasOutdatedLanguage
    /\ languageSuggestions = <<SuggestEndOfLife("Node.js", <<"1","6",".","0",".","0">>)>>

----------------------------------------------------------------------------
RuntimeNames == {"Node.js", "Python", "Java", "Go", "PHP", "Ruby", ".NET", "Rust"}

Tiers == {"success", "warning", "error"}

\* the text of a JAVA_HOME path between its first "java-" and the next "/"
JavaHomeToken(path) ==
    LET rest == SubSeq(path, Index(path, <<"j","a","v","a","-">>) + 5, Len(path))
    IN  IF Index(rest, <<"/">>) = 0 THEN rest ELSE SubSeq(rest, 1, Index(rest, <<"/">>) - 1)

\* the environment entry carries an empty version
EmptyValued(entry) ==
    IF HasPrefix(entry, <<"J","A","V","A","_","H","O","M","E","=">>)
    THEN Index(ValueOf(entry), <<"j","a","v","a","-">>) > 0 /\ JavaHomeToken(ValueOf(entry)) = << >>
    ELSE ValueOf(entry) = << >>

\* per environment detector: the variables whose first entry decides the
\* version, and all the variables the detector reads
EnvDetectors ==
    {[first |-> {<<"N","O","D","E","_","V","E","R","S","I","O","N","=">>}, all |-> {<<"N","O","D","E","_","V","E","R","S","I","O","N","=">>}],
     [first |-> {<<"P","Y","T","H","O","N","_","V","E","R","S","I","O","N","=">>}, all |-> {<<"P","Y","T","H","O","N","_","V","E","R","S","I","O","N","=">>}],
     [first |-> {<<"J","A","V","A","_","V","E","R","S","I","O","N","=">>, <<"J","A","V","A","_","H","O","M","E","=">>}, all |-> {<<"J","A","V","A","_","V","E","R","S","I","O","N","=">>, <<"J","A","V","A","_","H","O","M","E","=">>}],
     [first |-> {<<"G","O","L","A","N","G","_","V","E","R","S","I","O","N","=">>, <<"G","O","_","V","E","R","S","I","O","N","=">>},
      all |-> {<<"G","O","L","A","N","G","_","V","E","R","S","I","O","N","=">>, <<"G","O","_","V","E","R","S","I","O","N","=">>, <<"G","O","P","A","T","H","=">>}],
     [first |-> {<<"P","H","P","_","V","E","R","S","I","O","N","=">>}, all |-> {<<"P","H","P","_","V","E","R","S","I","O","N","=">>}],
     [first |-> {<<"R","U","B","Y","_","V","E","R","S","I","O","N","=">>}, all |-> {<<"R","U","B","Y","_","V","E","R","S","I","O","N","=">>}],
     [first |-> {<<"D","O","T","N","E","T","_","V","E","R","S","I","O","N","=">>, <<"A","S","P","N","E","T","C","O","R","E","_","V","E","R","S","I","O","N","=">>},
      all |-> {<<"D","O","T","N","E","T","_","V","E","R","S","I","O","N","=">>, <<"A","S","P","N","E","T","C","O","R","E","_","V","E","R","S","I","O","N","=">>}],
     [first |-> {<<"R","U","S","T","_","V","E","R","S","I","O","N","=">>, <<"C","A","R","G","O","_","H","O","M","E","=">>}, all |-> {<<"R","U","S","T","_","V","E","R","S","I","O","N","=">>, <<"C","A","R","G","O","_","H","O","M","E","=">>}]}

HasAnyPrefix(entry, prefixes) == \E p \in prefixes : HasPrefix(entry, p)

\* the first entry among the deciding variables of a detector, 0 when none
FirstEntryOf(d) == FirstIndex({k \in 1..Len(Env) : HasAnyPrefix(Env[k], d.first)})

\* the image without the entries a detector reads
WithoutDetector(img, d) ==
    LET Keep(entry) == ~HasAnyPrefix(entry, d.all)
    IN  [img EXCEPT !.Env = SelectSeq(img.Env, Keep)]

(* C12: every LanguageInfo DetectPrimaryLanguage returns has a name among  *)
(* Node.js, Python, Java, Go, PHP, Ruby, .NET, Rust, a tier among success, *)
(* warning, error, and a non-empty version; when the entry a detector      *)
(* takes its version from has an empty value (NODE_VERSION=, or a          *)
(* JAVA_HOME path with nothing between "java-" and the next "/"), that     *)
(* detector does not match and the result is what the rest of the cascade  *)
(* finds.                                                                  *)
C12_LanguageInfoWellFormed ==
    lpc = "done" =>
        /\ lang # << >> =>
              /\ lang[1].Name \in RuntimeNames
              /\ lang[1].Color \in Tiers
              /\ lang[1].Version # << >>
        /\ \A d \in EnvDetectors :
              (FirstEntryOf(d) # 0 /\ EmptyValued(Env[FirstEntryOf(d)])) =>
                  lang = DetectPrimaryLanguage(WithoutDetector(imageInspect, d))

C12_Witness ==
    /\ lpc = "done"
    /\ Env = <<<<"J","A","V","A","_","H","O","M","E","=","/","o","p","t","/","j","a","v","a","-","/","b","i","n">>, <<"G","O","P","A","T","H","=","/","g","o">>>>
    /\ lang = <<LanguageInfo("Go", <<"d","e","t","e","c","t","e","d">>, "success")>>

----------------------------------------------------------------------------
\* no entry of the environment is a variable an environment detector reads
NoRuntimeVariable == \A d \in EnvDetectors : FirstIndex({k \in 1..Len(Env) : HasAnyPrefix(Env[k], d.all)}) = 0

\* the names detectByCommand looks for
CommandNames == {<<"n","o","d","e">>, <<"n","p","m">>, <<"p","y","t","h","o","n">>, <<"j","a","v","a">>, <<"p","h","p">>, <<"r","u","b","y">>, <<"d","o","t","n","e","t">>}

NoRuntimeNameInCommand ==
    \A i \in 1..Len(imageInspect.Entrypoint \o imageInspect.Cmd) :
        \A n \in CommandNames : ~Contains((imageInspect.Entrypoint \o imageInspect.Cmd)[i], n)

\* a plain shell image: /bin/sh outside the Go working directories
PlainShell ==
    /\ NoRuntimeVariable
    /\ NoRuntimeNameInCommand
    /\ imageInspect.Entrypoint = <<<<"/","b","i","n","/","s","h">>>>
    /\ imageInspect.WorkingDir \notin {<<"/","a","p","p">>, <<"/","g","o","/","s","r","c","/","a","p","p">>}

\* the image size is strictly between 5 MB and 20 MB
BetweenFiveAndTwenty == imageInspect.Size > 5 * MiB /\ imageInspect.Size < 20 * MiB

(* C13 as stated: for a plain shell image (no runtime variable, no runtime *)
(* name in entrypoint and command, entrypoint /bin/sh, working directory   *)
(* other than /app and /go/src/app) DetectPrimaryLanguage returns none for *)
(* every image size, HasOutdatedLanguage is false and no suggestion is     *)
(* produced.                                                               *)
C13_PlainShellNoneForEverySize ==
    PlainShell =>
        /\ lpc \in {"done", "outdated", "suggested"} => lang = << >>
        /\ lpc \in {"outdated", "suggested"} => ~hasOutdatedLanguage
        /\ lpc = "suggested" => languageSuggestions = << >>

(* C13 amended: for a plain shell image DetectPrimaryLanguage returns none *)
(* unless the image size is strictly between 5 MB and 20 MB, where the     *)
(* compiled-binary heuristic reports Go "compiled" with tier success; for  *)
(* every size HasOutdatedLanguage is false and no suggestion is produced.  *)
C13_PlainShellNoneOutsideSmallSizes ==
    PlainShell =>
        /\ lpc \in {"done", "outdated", "suggested"} =>
              lang = IF BetweenFiveAndTwenty
                     THEN <<LanguageInfo("Go", <<"c","o","m","p","i","l","e","d">>, "success")>>
                     ELSE << >>
        /\ lpc \in {"outdated", "suggested"} => ~hasOutdatedLanguage
        /\ lpc = "suggested" => languageSuggestions = << >>

C13_Witness ==
    /\ PlainShell
    /\ lpc = "suggested"
    /\ imageInspect.WorkingDir = <<"/","s","r","v">>
    /\ imageInspect.Size = 20 * MiB
    /\ lang = << >>

----------------------------------------------------------------------------
\* the detections of the two compared images
Lang1 == DetectPrimaryLanguage(image1Inspect)

Lang2 == DetectPrimaryLanguage(image2Inspect)

SameName == Lang1 # << >> /\ Lang2 # << >> /\ Lang1[1].Name = Lang2[1].Name

\* the comparison reports the image of this name as the one using the newer runtime
ReportsNewer(report, image) == report[1] = "  - Image " /\ report[2] = image /\ report[3] = " uses newer "

\* the comparison of the same two images handed over in the other order
Swapped == PrintImageCompareLanguageResults("image1", image2Inspect, "image2", image1Inspect)

(* C14: PrintImageCompareLanguageResults reports that neither image has a  *)
(* runtime when both detections are none; names the only image with a      *)
(* runtime when exactly one is none; reports different languages when the  *)
(* names differ; reports the same version when names and version strings   *)
(* are equal; and when the names are equal and the major versions differ   *)
(* it reports as newer the image with the strictly greater major version   *)
(* (Node 20.0.0 against 18.0.0: image1), so that handing the two images    *)
(* over in the other order changes which one is reported newer.            *)
C14_CompareReportsByCase ==
    mpc = "done" =>
        /\ (Lang1 = << >> /\ Lang2 = << >>) =>
              compared = <<"  - No programming language runtime detected in either image.">>
        /\ (Lang1 = << >> /\ Lang2 # << >>) =>
              (compared[1] = "  - Only image " /\ compared[2] = "image2"
                  /\ compared[4] = Lang2[1].Name /\ compared[6] = Lang2[1].Version)
        /\ (Lang1 # << >> /\ Lang2 = << >>) =>
              (compared[1] = "  - Only image " /\ compared[2] = "image1"
                  /\ compared[4] = Lang1[1].Name /\ compared[6] = Lang1[1].Version)
        /\ (Lang1 # << >> /\ Lang2 # << >> /\ Lang1[1].Name # Lang2[1].Name) =>
              compared[1] = "  - Images use different languages: "
        /\ (SameName /\ Lang1[1].Version = Lang2[1].Version) =>
              (compared[1] = "  - Both images use the same " /\ compared[2] = Lang1[1].Name
                  /\ compared[4] = Lang1[1].Version)
        /\ (SameName /\ getMajorVersion(Lang1[1].Version) > getMajorVersion(Lang2[1].Version)) =>
              (ReportsNewer(compared, "image1") /\ ReportsNewer(Swapped, "image2"))
        /\ (SameName /\ getMajorVersion(Lang1[1].Version) < getMajorVersion(Lang2[1].Version)) =>
              (ReportsNewer(compared, "image2") /\ ReportsNewer(Swapped, "image1"))
        /\ (image1Inspect.Env = <<<<"N","O","D","E","_","V","E","R","S","I","O","N","=","2","0",".","0",".","0">>>> /\ image2Inspect.Env = <<<<"N","O","D","E","_","V","E","R","S","I","O","N","=","1","8",".","0",".","0">>>>) =>
              compared = <<"  - Image ", "image1", " uses newer ", "Node.js", " (", <<"2","0",".","0",".","0">>, " > ",
                           <<"1","8",".","0",".","0">>, ")">>

C14_Witness ==
    /\ mpc = "done"
    /\ image1Inspect.Env = <<<<"N","O","D","E","_","V","E","R","S","I","O","N","=","1","8",".","1","7",".","0">>>>
    /\ image2Inspect.Env = <<<<"N","O","D","E","_","V","E","R","S","I","O","N","=","2","0",".","0",".","0">>>>
    /\ ReportsNewer(compared, "image2")

----------------------------------------------------------------------------
\* heuristic detection left the language "unknown" or empty
HeuristicUnknown == heuristic.Language = <<"u","n","k","n","o","w","n">> \/ heuristic.Language = << >>

\* the answers of the model that are a JSON object, with the fields they give
ValidAnswers ==
    {<<<<"{","\"","l","a","n","g","u","a","g","e","\"",":","\"","g","o","\"",",","\"","f","r","a","m","e","w","o","r","k","\"",":","\"","g","i","n","\"",",","\"","p","a","c","k","a","g","e","M","a","n","a","g","e","r","\"",":","\"","g","o"," ","m","o","d","u","l","e","s","\"",",","\"","b","u","i","l","d","T","o","o","l","\"",":","\"","\"","}">>,
       [Language |-> <<"g","o">>, Framework |-> <<"g","i","n">>, PackageManager |-> <<"g","o"," ","m","o","d","u","l","e","s">>, BuildTool |-> <<>>]>>,
     <<<<"grave","grave","grave","j","s","o","n","\n","{"," ","\"","l","a","n","g","u","a","g","e","\"",":"," ","\"","p","y","t","h","o","n","\"",","," ","\"","f","r","a","m","e","w","o","r","k","\"",":"," ","\"","\"",","," ","\"","p","a","c","k","a","g","e","M","a","n","a","g","e","r","\"",":"," ","\"","p","i","p","\"",","," ","\"","b","u","i","l","d","T","o","o","l","\"",":"," ","\"","\""," ","}","\n","grave","grave","grave">>,
       [Language |-> <<"p","y","t","h","o","n">>, Framework |-> <<>>, PackageManager |-> <<"p","i","p">>, BuildTool |-> <<>>]>>,
     <<<<"grave","grave","grave","\n","{","\"","l","a","n","g","u","a","g","e","\"",":","\"","j","a","v","a","\"","}","\n","grave","grave","grave","\n">>,
       [Language |-> <<"j","a","v","a">>, Framework |-> <<>>, PackageManager |-> <<>>, BuildTool |-> <<>>]>>,
     <<<<"{","\"","l","a","n","g","u","a","g","e","\"",":","\"","\"",",","\"","f","r","a","m","e","w","o","r","k","\"",":","\"","\"",",","\"","p","a","c","k","a","g","e","M","a","n","a","g","e","r","\"",":","\"","\"",",","\"","b","u","i","l","d","T","o","o","l","\"",":","\"","\"","}">>,
       [Language |-> <<>>, Framework |-> <<>>, PackageManager |-> <<>>, BuildTool |-> <<>>]>>,
     <<<<"{","\"","l","a","n","g","u","a","g","e","\"",":","\"","\"",",","\"","f","r","a","m","e","w","o","r","k","\"",":","\"","r","a","i","l","s","\"",",","\"","b","u","i","l","d","T","o","o","l","\"",":","\"","m","a","k","e","\"","}">>,
       [Language |-> <<>>, Framework |-> <<"r","a","i","l","s">>, PackageManager |-> <<>>, BuildTool |-> <<"m","a","k","e">>]>>,
     <<<<"{","}">>, [Language |-> <<>>, Framework |-> <<>>, PackageManager |-> <<>>, BuildTool |-> <<>>]>>}

\* the LLM was asked and answered with a JSON object
AnsweredValid == llmOutcome # << >> /\ llmOutcome.kind = "response"
                    /\ \E a \in ValidAnswers : a[1] = llmOutcome.text

Answer == (CHOOSE a \in ValidAnswers : a[1] = llmOutcome.text)[2]

\* the field of the answer if it is not empty, the heuristic one otherwise
Overwritten(answered, found) == IF answered # << >> THEN answered ELSE found

(* C15: DetectProjectSmart asks the LLM at most once, and only when the    *)
(* heuristic language is "unknown" or empty and an API key is given; when  *)
(* the heuristics found a language the heuristic record is returned        *)
(* unchanged without a call; when the provider or the call fails or the    *)
(* answer is not valid JSON the record returned is the heuristic record;   *)
(* on a valid answer exactly the non-empty fields among language,          *)
(* framework, packageManager, buildTool overwrite the record.              *)
C15_SmartAsksOnlyWhenUnknown ==
    jpc = "done" =>
        /\ llmCalls <= 1
        /\ llmCalls = 1 => (HeuristicUnknown /\ apiKey # << >>)
        /\ ~HeuristicUnknown => (llmCalls = 0 /\ tech = heuristic)
        /\ ~AnsweredValid => tech = heuristic
        /\ AnsweredValid =>
              tech = [heuristic EXCEPT
                         !.Language = Overwritten(Answer.Language, heuristic.Language),
                         !.Framework = Overwritten(Answer.Framework, heuristic.Framework),
                         !.PackageManager = Overwritten(Answer.PackageManager, heuristic.PackageManager),
                         !.BuildTool = Overwritten(Answer.BuildTool, heuristic.BuildTool)]

C15_Witness ==
    /\ jpc = "done"
    /\ llmCalls = 1
    /\ llmOutcome.text = <<"{","\"","l","a","n","g","u","a","g","e","\"",":","\"","\"",",","\"","f","r","a","m","e","w","o","r","k","\"",":","\"","r","a","i","l","s","\"",",","\"","b","u","i","l","d","T","o","o","l","\"",":","\"","m","a","k","e","\"","}">>
    /\ heuristic.ConfigFiles = <<"Makefile">>
    /\ tech.Language = <<"u","n","k","n","o","w","n">>
    /\ tech.Framework = <<"r","a","i","l","s">>
    /\ tech.BuildTool = <<"m","a","k","e">>

----------------------------------------------------------------------------
\* the extensions the table maps to a language named in the claim's terms
ExtensionsOf(language) ==
    CASE language = <<"j","a","v","a","s","c","r","i","p","t">> -> {".js", ".jsx"}
      [] language = <<"t","y","p","e","s","c","r","i","p","t">> -> {".ts", ".tsx"}
      [] language = <<"p","y","t","h","o","n">> -> {".py"}
      [] language = <<"g","o">> -> {".go"}
      [] language = <<"j","a","v","a">> -> {".java"}
      [] language = <<"k","o","t","l","i","n">> -> {".kt"}
      [] language = <<"r","u","s","t">> -> {".rs"}
      [] language = <<"p","h","p">> -> {".php"}
      [] language = <<"r","u","b","y">> -> {".rb"}
      [] language = <<"c","s","h","a","r","p">> -> {".cs"}
      [] language = <<"c","p","p">> -> {".cpp"}
      [] language = <<"c">> -> {".c"}
      [] language = <<"s","w","i","f","t">> -> {".swift"}
      [] language = <<"d","a","r","t">> -> {".dart"}
      [] OTHER -> {}

TableLanguages ==
    {<<"j","a","v","a","s","c","r","i","p","t">>, <<"t","y","p","e","s","c","r","i","p","t">>, <<"p","y","t","h","o","n">>, <<"g","o">>, <<"j","a","v","a">>, <<"k","o","t","l","i","n">>, <<"r","u","s","t">>, <<"p","h","p">>,
     <<"r","u","b","y">>, <<"c","s","h","a","r","p">>, <<"c","p","p">>, <<"c">>, <<"s","w","i","f","t">>, <<"d","a","r","t">>}

\* the number of counted files of the project with an extension of the language
FilesOf(language) ==
    LET counted == project.extensions
    IN  SumCounts(counted, ExtensionsOf(language) \cap DOMAIN counted)

GreatestCount(language) == \A other \in TableLanguages : FilesOf(other) <= FilesOf(language)

\* the languages with the greatest count, when some file is counted for a language
Leaders == {l \in TableLanguages : FilesOf(l) > 0 /\ GreatestCount(l)}

\* detectLanguageFromExtensions has returned and nothing has replaced its result
LanguageFromExtensionsSet == jpc \in {"language", "configs"}

(* C17: the language detectLanguageFromExtensions returns is "unknown"     *)
(* when no counted file has an extension of the table, and otherwise a     *)
(* language whose extensions have the greatest total count: the one with   *)
(* the strictly highest count whatever the order the map is enumerated     *)
(* in, and one of the tied languages when several share the highest count. *)
C17_PrimaryLanguageHasGreatestCount ==
    LanguageFromExtensionsSet =>
        /\ Leaders = {} <=> tech.Language = <<"u","n","k","n","o","w","n">>
        /\ Leaders # {} => tech.Language \in Leaders
        /\ Cardinality(Leaders) = 1 => Leaders = {tech.Language}

\* two languages tie above a third, and the second of the table order is returned
C17_Witness ==
    /\ LanguageFromExtensionsSet
    /\ Leaders = {<<"j","a","v","a","s","c","r","i","p","t">>, <<"p","y","t","h","o","n">>}
    /\ FilesOf(<<"j","a","v","a","s","c","r","i","p","t">>) = 2
    /\ FilesOf(<<"g","o">>) = 1
    /\ project.extensions[".js"] = 1
    /\ project.extensions[".jsx"] = 1
    /\ tech.Language = <<"p","y","t","h","o","n">>

\* the same tie with the other language returned
C17_TieOther ==
    /\ LanguageFromExtensionsSet
    /\ Leaders = {<<"j","a","v","a","s","c","r","i","p","t">>, <<"p","y","t","h","o","n">>}
    /\ tech.Language = <<"j","a","v","a","s","c","r","i","p","t">>

\* a single language strictly ahead
C17_Single ==
    /\ LanguageFromExtensionsSet
    /\ FilesOf(<<"g","o">>) = 2
    /\ FilesOf(<<"p","y","t","h","o","n">>) = 1
    /\ FilesOf(<<"j","a","v","a","s","c","r","i","p","t">>) = 1
    /\ tech.Language = <<"g","o">>

----------------------------------------------------------------------------
\* the process was ended by log.Fatal
Terminated == gpc = "fatal"

\* Create has come back from writing the Dockerfile
DockerfileWritten == gpc = "done" /\ created # << >>

\* the LLM failures: no API key, a provider that cannot be set up, a failed call
MissingAPIKey == apiKey = << >>

LLMFailed == genOutcome # << >> /\ genOutcome.kind \in {"provider error", "generate error"}

(* C16: during the creation of the Dockerfile no LLM failure (missing API  *)
(* key, provider that cannot be created, failed generation, malformed      *)
(* response) ends the process with a fatal error, on the provider path or  *)
(* on the LangChain path: the run goes on to write Dockeryzer.Dockerfile.  *)
C16_NoLLMFailureIsFatal ==
    /\ ~Terminated
    /\ (gpc = "done" => DockerfileWritten)

\* what the code does: the provider path recovers from a failed provider or call
C16_ProviderPathRecovers ==
    (~useLangChain /\ ~MissingAPIKey /\ gpc = "done" /\ LLMFailed) =>
        \E hasBuild \in BOOLEAN : created = <<getFallbackDockerfile(tech, hasBuild)>>

C16_FatalOnMissingKey == Terminated /\ MissingAPIKey /\ ~useLangChain /\ created = << << >> >>

C16_FatalOnLangChainError == Terminated /\ useLangChain /\ LLMFailed /\ created = << >>

C16_FallbackWritten ==
    /\ gpc = "done"
    /\ ~useLangChain
    /\ genOutcome.kind = "generate error"
    /\ tech.Language = <<"g","o">>
    /\ created = << <<"getGoDockerfileContent">> >>

----------------------------------------------------------------------------
\* NewAIProvider has returned
ProviderReturned == fpc = "done"

\* the type is gemini or openai in some mix of upper and lower case
NamesSupportedType(type) == ToUpper(type) \in {<<"G","E","M","I","N","I">>, <<"O","P","E","N","A","I">>}

NilProvider == provider.provider = << >>

(* C19: NewAIProvider returns a nil provider and the error "API key is     *)
(* required" whenever the key is empty, whatever the type; with a key it   *)
(* returns a provider and no error for the types gemini and openai in any  *)
(* letter case, and a nil provider with an error naming an "unsupported    *)
(* provider type" for every other type.                                    *)
C19_ProviderByKeyThenType ==
    ProviderReturned =>
        IF providerConfig.APIKey = << >>
        THEN NilProvider /\ provider.err = <<"API key is required">>
        ELSE IF NamesSupportedType(providerConfig.Type)
        THEN ~NilProvider /\ provider.err = << >>
        ELSE /\ NilProvider
             /\ provider.err # << >>
             /\ provider.err[1] = "unsupported provider type: "
             /\ provider.err[2] = providerConfig.Type

\* a type in mixed case with a key
C19_Witness ==
    /\ ProviderReturned
    /\ providerConfig.Type = <<"G","e","M","i","N","i">>
    /\ providerConfig.APIKey = <<"k","e","y">>
    /\ ~NilProvider
    /\ provider.err = << >>

\* a supported type without a key, and an unsupported type with a key
C19_KeyFirst ==
    /\ ProviderReturned
    /\ providerConfig.Type = <<"o","p","e","n","a","i">>
    /\ providerConfig.APIKey = << >>
    /\ provider.err = <<"API key is required">>

C19_Unsupported ==
    /\ ProviderReturned
    /\ providerConfig.Type = <<"c","l","a","u","d","e">>
    /\ providerConfig.APIKey = <<" ">>
    /\ NilProvider
    /\ provider.err = <<"unsupported provider type: ", <<"c","l","a","u","d","e">>>>

----------------------------------------------------------------------------
\* the config files of the fallback by priority, with their languages
PriorityOrder ==
    <<[files |-> {"package.json"}, language |-> <<"j","a","v","a","s","c","r","i","p","t">>],
      [files |-> {"go.mod"}, language |-> <<"g","o">>],
      [files |-> {"requirements.txt", "Pipfile", "pyproject.toml"}, language |-> <<"p","y","t","h","o","n">>],
      [files |-> {"Cargo.toml"}, language |-> <<"r","u","s","t">>],
      [files |-> {"composer.json"}, language |-> <<"p","h","p">>]>>

\* the order in which detectConfigFiles lists them
ListedOrder ==
    <<[files |-> {"package.json"}, language |-> <<"j","a","v","a","s","c","r","i","p","t">>],
      [files |-> {"requirements.txt", "Pipfile", "pyproject.toml"}, language |-> <<"p","y","t","h","o","n">>],
      [files |-> {"go.mod"}, language |-> <<"g","o">>],
      [files |-> {"Cargo.toml"}, language |-> <<"r","u","s","t">>],
      [files |-> {"composer.json"}, language |-> <<"p","h","p">>]>>

PresentIn(order) == {i \in 1..Len(order) : order[i].files \cap project.files # {}}

FirstPresent(order) == CHOOSE i \in PresentIn(order) : \A j \in PresentIn(order) : i <= j

LastPresent(order) == CHOOSE i \in PresentIn(order) : \A j \in PresentIn(order) : j <= i

\* DetectProject has returned, no language came from the extensions and a
\* file of the fallback is present
FallbackDecides ==
    /\ jpc \in {"heuristic", "done"}
    /\ Leaders = {}
    /\ PresentIn(PriorityOrder) # {}

(* C18: when no language is identified from the extensions and known       *)
(* config files are present, the language of the record DetectProject      *)
(* returns is that of the present file of highest priority in the order    *)
(* package.json (javascript), go.mod (go), requirements.txt / Pipfile /    *)
(* pyproject.toml (python), Cargo.toml (rust), composer.json (php).        *)
C18_HighestPriorityConfigFileWins ==
    FallbackDecides => heuristic.Language = PriorityOrder[FirstPresent(PriorityOrder)].language

\* what the code does: the file listed last by detectConfigFiles decides
C18_LastListedConfigFileWins ==
    FallbackDecides => heuristic.Language = ListedOrder[LastPresent(ListedOrder)].language

C18_GoOverJavascript ==
    /\ FallbackDecides
    /\ project.files = {"package.json", "go.mod"}
    /\ heuristic.Language = <<"g","o">>

----------------------------------------------------------------------------
\* the detectors before Java in the cascade find nothing, and a Java variable is set
JavaDecides ==
    /\ lpc # "start"
    /\ ~HasEnvPrefix(<<"N","O","D","E","_","V","E","R","S","I","O","N","=">>)
    /\ ~HasEnvPrefix(<<"P","Y","T","H","O","N","_","V","E","R","S","I","O","N","=">>)
    /\ (HasEnvPrefix(<<"J","A","V","A","_","V","E","R","S","I","O","N","=">>) \/ HasEnvPrefix(<<"J","A","V","A","_","H","O","M","E","=">>))

FirstWithPrefix(prefixes) == FirstIndex({k \in 1..Len(Env) : HasAnyPrefix(Env[k], prefixes)})

\* the version a JAVA_HOME entry gives
JavaHomeVersion(entry) ==
    IF Index(ValueOf(entry), <<"j","a","v","a","-">>) > 0 THEN JavaHomeToken(ValueOf(entry)) ELSE <<"d","e","t","e","c","t","e","d">>

\* JAVA_VERSION wherever it stands, JAVA_HOME only without it
PreferredJavaVersion ==
    IF HasEnvPrefix(<<"J","A","V","A","_","V","E","R","S","I","O","N","=">>)
    THEN ValueOf(Env[FirstWithPrefix({<<"J","A","V","A","_","V","E","R","S","I","O","N","=">>})])
    ELSE JavaHomeVersion(Env[FirstWithPrefix({<<"J","A","V","A","_","H","O","M","E","=">>})])

\* the first entry of either variable
FirstJavaVersion ==
    LET entry == Env[FirstWithPrefix({<<"J","A","V","A","_","V","E","R","S","I","O","N","=">>, <<"J","A","V","A","_","H","O","M","E","=">>})]
    IN  IF HasPrefix(entry, <<"J","A","V","A","_","V","E","R","S","I","O","N","=">>) THEN ValueOf(entry) ELSE JavaHomeVersion(entry)

DetectedJava(version) == lang # << >> /\ lang[1].Name = "Java" /\ lang[1].Version = version

(* C20: when the environment has a JAVA_VERSION entry the detected Java    *)
(* version is its value, wherever a JAVA_HOME entry stands in the list;    *)
(* only without a JAVA_VERSION entry JAVA_HOME is used, giving the token   *)
(* between "java-" and the next "/" when the path contains "java-", and    *)
(* "detected" otherwise.                                                   *)
C20_JavaVersionBeforeJavaHome ==
    (JavaDecides /\ PreferredJavaVersion # << >>) => DetectedJava(PreferredJavaVersion)

\* what the code does: the first entry of either variable decides
C20_FirstJavaEntryDecides ==
    (JavaDecides /\ FirstJavaVersion # << >>) => DetectedJava(FirstJavaVersion)

C20_JavaHomeFirst ==
    /\ lpc = "done"
    /\ Env = <<<<"J","A","V","A","_","H","O","M","E","=","/","u","s","r","/","l","i","b","/","j","v","m","/","j","a","v","a","-","1","7","-","o","p","e","n","j","d","k">>, <<"J","A","V","A","_","V","E","R","S","I","O","N","=","1","7",".","0",".","1">>>>
    /\ DetectedJava(<<"1","7","-","o","p","e","n","j","d","k">>)

----------------------------------------------------------------------------
\* the variables the detectors before Rust in the cascade read
BeforeRust ==
    {<<"N","O","D","E","_","V","E","R","S","I","O","N","=">>, <<"P","Y","T","H","O","N","_","V","E","R","S","I","O","N","=">>, <<"J","A","V","A","_","V","E","R","S","I","O","N","=">>, <<"J","A","V","A","_","H","O","M","E","=">>, <<"G","O","L","A","N","G","_","V","E","R","S","I","O","N","=">>,
     <<"G","O","_","V","E","R","S","I","O","N","=">>, <<"G","O","P","A","T","H","=">>, <<"P","H","P","_","V","E","R","S","I","O","N","=">>, <<"R","U","B","Y","_","V","E","R","S","I","O","N","=">>, <<"D","O","T","N","E","T","_","V","E","R","S","I","O","N","=">>,
     <<"A","S","P","N","E","T","C","O","R","E","_","V","E","R","S","I","O","N","=">>}

\* no earlier detector has a variable to read, and a Rust variable is set
RustDecides ==
    /\ lpc # "start"
    /\ FirstWithPrefix(BeforeRust) = 0
    /\ (HasEnvPrefix(<<"R","U","S","T","_","V","E","R","S","I","O","N","=">>) \/ HasEnvPrefix(<<"C","A","R","G","O","_","H","O","M","E","=">>))

\* RUST_VERSION wherever it stands, "detected" only without it
PreferredRustVersion ==
    IF HasEnvPrefix(<<"R","U","S","T","_","V","E","R","S","I","O","N","=">>)
    THEN ValueOf(Env[FirstWithPrefix({<<"R","U","S","T","_","V","E","R","S","I","O","N","=">>})])
    ELSE <<"d","e","t","e","c","t","e","d">>

\* the first entry of either variable
FirstRustVersion ==
    LET entry == Env[FirstWithPrefix({<<"R","U","S","T","_","V","E","R","S","I","O","N","=">>, <<"C","A","R","G","O","_","H","O","M","E","=">>})]
    IN  IF HasPrefix(entry, <<"R","U","S","T","_","V","E","R","S","I","O","N","=">>) THEN ValueOf(entry) ELSE <<"d","e","t","e","c","t","e","d">>

DetectedRust(version) == lang = <<LanguageInfo("Rust", version, "success")>>

(* C21: when the environment has a RUST_VERSION entry the detected Rust    *)
(* version is its value, wherever a CARGO_HOME entry stands in the list;   *)
(* only without a RUST_VERSION entry a CARGO_HOME entry gives the version  *)
(* "detected"; the tier is success for every version string.               *)
C21_RustVersionBeforeCargoHome ==
    (RustDecides /\ PreferredRustVersion # << >>) => DetectedRust(PreferredRustVersion)

\* what the code does: the first entry of either variable decides
C21_FirstRustEntryDecides ==
    (RustDecides /\ FirstRustVersion # << >>) => DetectedRust(FirstRustVersion)

C21_CargoHomeFirst ==
    /\ lpc = "done"
    /\ Env = <<<<"C","A","R","G","O","_","H","O","M","E","=","/","u","s","r","/","l","o","c","a","l","/","c","a","r","g","o">>, <<"R","U","S","T","_","V","E","R","S","I","O","N","=","1",".","7","0",".","0">>>>
    /\ DetectedRust(<<"d","e","t","e","c","t","e","d">>)

C21_Unparsable ==
    /\ lpc = "done"
    /\ Env = <<<<"R","U","S","T","_","V","E","R","S","I","O","N","=","i","n","v","a","l","i","d">>>>
    /\ DetectedRust(<<"i","n","v","a","l","i","d">>)

----------------------------------------------------------------------------
\* the entrypoint tokens followed by the command tokens, joined by spaces
CommandString == Join(imageInspect.Entrypoint \o imageInspect.Cmd, <<" ">>)

\* the texts looked for, by priority, with java as a plain substring
SubstringOrder ==
    <<[texts |-> {<<"n","o","d","e">>, <<"n","p","m">>}, name |-> "Node.js"],
      [texts |-> {<<"p","y","t","h","o","n">>}, name |-> "Python"],
      [texts |-> {<<"j","a","v","a">>}, name |-> "Java"],
      [texts |-> {<<"p","h","p">>}, name |-> "PHP"],
      [texts |-> {<<"r","u","b","y">>}, name |-> "Ruby"],
      [texts |-> {<<"d","o","t","n","e","t">>}, name |-> ".NET"]>>

\* the same with java followed by a space
SubstringOrderJavaSpace == [SubstringOrder EXCEPT ![3].texts = {<<"j","a","v","a"," ">>}]

MatchesIn(order) ==
    {i \in 1..Len(order) : \E t \in order[i].texts : Contains(CommandString, t)}

FirstMatchIn(order) == CHOOSE i \in MatchesIn(order) : \A j \in MatchesIn(order) : i <= j

\* the first match of the order is reported with version "unknown" and tier warning
ReportsFirstMatchOf(order) ==
    (lpc # "start" /\ NoRuntimeVariable /\ MatchesIn(order) # {}) =>
        lang = <<LanguageInfo(order[FirstMatchIn(order)].name, <<"u","n","k","n","o","w","n">>, "warning")>>

(* C22: when no environment detector matches, the entrypoint tokens and    *)
(* the command tokens are joined and searched for node or npm, python,     *)
(* java, php, ruby, dotnet in this order; the first one found gives the    *)
(* language with version "unknown" and tier warning, so an entrypoint of   *)
(* just java is reported as Java.                                          *)
C22_CommandSubstringOrder == ReportsFirstMatchOf(SubstringOrder)

(* C22 as the code has it: java counts only when a space follows it; when  *)
(* nothing is found no language is reported with version "unknown".        *)
C22_CommandSubstringOrderJavaSpace ==
    /\ ReportsFirstMatchOf(SubstringOrderJavaSpace)
    /\ (lpc # "start" /\ NoRuntimeVariable /\ MatchesIn(SubstringOrderJavaSpace) = {}) =>
          (lang = << >> \/ lang[1].Version = <<"c","o","m","p","i","l","e","d">>)

\* node and python both in the string
C22_Witness ==
    /\ lpc = "done"
    /\ NoRuntimeVariable
    /\ imageInspect.Entrypoint = <<<<"/","u","s","r","/","l","o","c","a","l","/","b","i","n","/","n","o","d","e","-","e","x","p","o","r","t","e","r">>>>
    /\ imageInspect.Cmd = <<<<"p","y","t","h","o","n">>, <<"a","p","p",".","p","y">>>>
    /\ lang = <<LanguageInfo("Node.js", <<"u","n","k","n","o","w","n">>, "warning")>>

C22_JavaJar ==
    /\ lpc = "done"
    /\ NoRuntimeVariable
    /\ imageInspect.Entrypoint = <<<<"j","a","v","a">>, <<"-","j","a","r">>, <<"a","p","p",".","j","a","r">>>>
    /\ imageInspect.Cmd = << >>
    /\ lang = <<LanguageInfo("Java", <<"u","n","k","n","o","w","n">>, "warning")>>

C22_JavaAlone ==
    /\ lpc = "done"
    /\ NoRuntimeVariable
    /\ imageInspect.Entrypoint = <<<<"j","a","v","a">>>>
    /\ imageInspect.Cmd = << >>
    /\ lang = << >>

----------------------------------------------------------------------------
\* 10^6: the megabyte of GetImageSizeInMBs, the size the report shows
MB == 1000000

\* no environment detector and no command text matched
HeuristicReached ==
    /\ lpc # "start"
    /\ NoRuntimeVariable
    /\ MatchesIn(SubstringOrderJavaSpace) = {}

\* B: the first entrypoint token names a binary
LikelyBinary ==
    /\ imageInspect.Entrypoint # << >>
    /\ \E prefix \in {<<"/","a","p","p","/">>, <<"/","u","s","r","/","l","o","c","a","l","/","b","i","n","/">>, <<"/","b","i","n","/">>} :
          HasPrefix(imageInspect.Entrypoint[1], prefix)
    /\ ~HasSuffix(imageInspect.Entrypoint[1], <<".","s","h">>)
    /\ \A text \in {<<"p","y","t","h","o","n">>, <<"n","o","d","e">>, <<"j","a","v","a">>, <<"r","u","b","y">>, <<"p","h","p">>} :
          ~Contains(imageInspect.Entrypoint[1], text)

\* W: a working directory usual for Go
GoWorkingDir == imageInspect.WorkingDir \in {<<"/","a","p","p">>, <<"/","g","o","/","s","r","c","/","a","p","p">>}

\* S: the size is strictly between 5 and 100 megabytes of the given number of bytes
SmallImage(unit) == imageInspect.Size > 5 * unit /\ imageInspect.Size < 100 * unit

\* Go "compiled" success iff B and (W or S) and (size < 20 or (W and S))
CompiledIff(unit) ==
    HeuristicReached =>
        lang = IF /\ LikelyBinary
                  /\ (GoWorkingDir \/ SmallImage(unit))
                  /\ (imageInspect.Size < 20 * unit \/ (GoWorkingDir /\ SmallImage(unit)))
               THEN <<LanguageInfo("Go", <<"c","o","m","p","i","l","e","d">>, "success")>>
               ELSE << >>

C23_FiveMiB ==
    /\ lpc = "done"
    /\ HeuristicReached
    /\ LikelyBinary
    /\ ~GoWorkingDir
    /\ imageInspect.Size = 5 * MiB
    /\ lang = << >>

C23_ScriptEntrypoint ==
    /\ lpc = "done"
    /\ HeuristicReached
    /\ imageInspect.Entrypoint = <<<<"/","a","p","p","/","s","t","a","r","t",".","s","h">>>>
    /\ GoWorkingDir
    /\ imageInspect.Size = 15000000
    /\ lang = << >>

----------------------------------------------------------------------------
\* the lines of the Dockerfile
Lines == Split(dockerfile, <<"\n">>)

\* Analyze has returned its results, the one of the rule at place n among them
HasResult(n) == cpc = "print" /\ Len(results) >= n

\* the line has the instruction keyword, in any letter case
HasKeyword(line, keyword) == HasPrefix(ToUpper(TrimSpace(line)), keyword)

\* the line has the keyword RUN written in capitals
HasCapitalRun(line) == HasPrefix(TrimSpace(line), <<"R","U","N">>)

\* the numbers of the lines with the keyword
LinesWith(lines, keyword) == {k \in 1..Len(lines) : HasKeyword(lines[k], keyword)}

UncombinedRunLines ==
    LET lines == Lines
    IN  {k \in LinesWith(lines, <<"R","U","N">>) : ~Contains(lines[k], <<"&","&">>)}

UncombinedCapitalRunLines ==
    LET lines == Lines
    IN  {k \in 1..Len(lines) : HasCapitalRun(lines[k]) /\ ~Contains(lines[k], <<"&","&">>)}

FailsLow(r, ruleID) == r.RuleID = ruleID /\ ~r.Passed /\ r.Severity = "LOW"

Passes(r, ruleID) == r.RuleID = ruleID /\ r.Passed

(* C24: CIS-8.1 fails with severity LOW iff some line has the instruction  *)
(* keyword RUN, in any letter case, and no "&&"; it passes otherwise; the  *)
(* other rules are evaluated all the same.                                 *)
C24_CombinedRunAnyCase ==
    /\ HasResult(9) =>
          IF UncombinedRunLines # {} THEN FailsLow(results[9], "CIS-8.1")
          ELSE Passes(results[9], "CIS-8.1")
    /\ cpc = "print" => Len(results) = 10

\* what the code does: only RUN in capitals counts
C24_CombinedRunCapitalsOnly ==
    /\ HasResult(9) =>
          IF UncombinedCapitalRunLines # {} THEN FailsLow(results[9], "CIS-8.1")
          ELSE Passes(results[9], "CIS-8.1")
    /\ cpc = "print" => Len(results) = 10

C24_LowerCaseRunPasses ==
    /\ cpc = "print"
    /\ dockerfile = <<"F","R","O","M"," ","n","o","d","e",":","1","8","\n","r","u","n"," ","p","i","p"," ","i","n","s","t","a","l","l">>
    /\ Passes(results[9], "CIS-8.1")

----------------------------------------------------------------------------
\* the index from 0 of the last line of a set of line numbers, -1 for none
LastLine(at) == IF at = {} THEN -1 ELSE (CHOOSE k \in at : \A j \in at : j <= k) - 1

\* i: the last line that starts with RUN and contains "install", in any case
LastInstall ==
    LET lines == Lines
    IN  LastLine({k \in LinesWith(lines, <<"R","U","N">>) : Contains(ToLower(lines[k]), <<"i","n","s","t","a","l","l">>)})

\* c: the last line that starts with COPY
LastCopy == LastLine(LinesWith(Lines, <<"C","O","P","Y">>))

C25_CopyLast ==
    /\ HasResult(10)
    /\ dockerfile = <<"R","U","N"," ","n","p","m"," ","i","n","s","t","a","l","l","\n","C","O","P","Y"," ","."," ",".">>
    /\ Passes(results[10], "CIS-9.1")

----------------------------------------------------------------------------
\* the first line with the keyword FROM, 0 when there is none
FirstFromLine == FirstIndex(LinesWith(Lines, <<"F","R","O","M">>))

\* the tokens of the first FROM line
FirstFromTokens == Fields(Lines[FirstFromLine])

FailsWith(r, ruleID, severity) == r.RuleID = ruleID /\ ~r.Passed /\ r.Severity = severity

\* the number of lines with the keyword FROM
FromLines == Cardinality(LinesWith(Lines, <<"F","R","O","M">>))

(* C26: CIS-1.1 and CIS-1.2 judge the image reference of the first FROM    *)
(* line only, its second token: CIS-1.1 fails with MEDIUM iff the token    *)
(* contains "/" and does not start with "library/", CIS-1.2 fails with     *)
(* HIGH iff the token has no ":" or ends with ":latest"; both pass         *)
(* otherwise, whatever later FROM lines say.                               *)
C26_FirstFromLineDecides ==
    (HasResult(2) /\ FirstFromLine # 0) =>
        LET image == FirstFromTokens[2]
        IN  /\ Len(FirstFromTokens) >= 2
            /\ IF Contains(image, <<"/">>) /\ ~HasPrefix(image, <<"l","i","b","r","a","r","y","/">>)
               THEN FailsWith(results[1], "CIS-1.1", "MEDIUM")
               ELSE Passes(results[1], "CIS-1.1")
            /\ IF ~Contains(image, <<":">>) \/ HasSuffix(image, <<":","l","a","t","e","s","t">>)
               THEN FailsWith(results[2], "CIS-1.2", "HIGH")
               ELSE Passes(results[2], "CIS-1.2")

\* an official, tagged first stage followed by a stage that is neither
C26_Witness ==
    /\ HasResult(2)
    /\ dockerfile = <<"F","R","O","M"," ","l","i","b","r","a","r","y","/","a","l","p","i","n","e",":","3",".","1","8"," ","A","S"," ","b","u","i","l","d","\n","F","R","O","M"," ","m","y","o","r","g","/","a","p","p",":","l","a","t","e","s","t">>
    /\ FromLines = 2
    /\ Passes(results[1], "CIS-1.1")
    /\ Passes(results[2], "CIS-1.2")

C26_BothFail ==
    /\ HasResult(2)
    /\ dockerfile = <<"F","R","O","M"," ","m","y","o","r","g","/","a","p","p",":","l","a","t","e","s","t","\n","F","R","O","M"," ","n","o","d","e",":","1","8">>
    /\ FailsWith(results[1], "CIS-1.1", "MEDIUM")
    /\ FailsWith(results[2], "CIS-1.2", "HIGH")

C26_Indented ==
    /\ HasResult(2)
    /\ dockerfile = <<" "," ","f","r","o","m"," ","s","c","r","a","t","c","h","\n","F","R","O","M">>
    /\ Passes(results[1], "CIS-1.1")
    /\ FailsWith(results[2], "CIS-1.2", "HIGH")

----------------------------------------------------------------------------
\* what the rule at place n returns for the text when os.Stat(".dockerignore")
\* succeeds, and when it fails
ResultWith(n, statOK) == Check(NewCISAnalyzer[n], dockerfile, statOK).result

\* the results so far are those of the same text with and without .dockerignore,
\* but for CIS-5.2 at place 6
SameButDockerIgnore ==
    cpc = "print" =>
        \A n \in 1..Len(results) : n # 6 => results[n] = ResultWith(n, ~dockerignore)

DockerIgnoreDecides ==
    HasResult(6) =>
        IF dockerignore THEN Passes(results[6], "CIS-5.2") ELSE FailsLow(results[6], "CIS-5.2")

\* no step of the analysis writes the Dockerfile or .dockerignore
FilesKept == dockerfile' = dockerfile /\ dockerignore' = dockerignore

(* C27: CIS-5.2 passes iff .dockerignore exists in the working directory,  *)
(* whatever the Dockerfile text, and fails with LOW otherwise; the other   *)
(* nine results are the same with and without .dockerignore; the analysis  *)
(* changes no file, so the results are determined by the text and the      *)
(* existence of .dockerignore.                                             *)
C27_OnlyDockerIgnoreReadsTheDirectory ==
    /\ [](DockerIgnoreDecides /\ SameButDockerIgnore)
    /\ [][FilesKept]_vars

\* a text that mentions .dockerignore nowhere, with the file present
C27_Witness ==
    /\ cpc = "print"
    /\ dockerignore
    /\ dockerfile = <<"F","R","O","M"," ","n","o","d","e",":","1","8","\n","C","O","P","Y"," ","."," ",".">>
    /\ Passes(results[6], "CIS-5.2")
    /\ SameButDockerIgnore

C27_Absent ==
    /\ cpc = "print"
    /\ ~dockerignore
    /\ dockerfile = <<"F","R","O","M"," ","n","o","d","e",":","1","8","\n","C","O","P","Y"," ","."," ",".">>
    /\ FailsLow(results[6], "CIS-5.2")

----------------------------------------------------------------------------
\* DetectProject has returned
ProjectDetected == jpc \in {"heuristic", "done"}

\* the record before any sub-detector has run, with the language it is returned with
BeforeSubDetector ==
    [NewProjectTechnology(project) EXCEPT
        !.FileExtensions = project.extensions,
        !.ConfigFiles = detectConfigFiles(project),
        !.Language = heuristic.Language]

\* the record as the one sub-detector of the language leaves it; a language
\* without a sub-detector leaves it as it is
BySubDetectorOf(language) ==
    CASE language \in {<<"j","a","v","a","s","c","r","i","p","t">>, <<"t","y","p","e","s","c","r","i","p","t">>} -> detectNodeJSProject(project, BeforeSubDetector)
      [] language = <<"p","y","t","h","o","n">> -> detectPythonProject(project, BeforeSubDetector)
      [] language = <<"g","o">> -> detectGoProject(project, BeforeSubDetector)
      [] language = <<"j","a","v","a">> -> detectJavaProject(project, BeforeSubDetector)
      [] language = <<"r","u","s","t">> -> detectRustProject(project, BeforeSubDetector)
      [] language = <<"p","h","p">> -> detectPHPProject(project, BeforeSubDetector)
      [] language = <<"r","u","b","y">> -> detectRubyProject(project, BeforeSubDetector)
      [] language = <<"c","s","h","a","r","p">> -> detectCSharpProject(project, BeforeSubDetector)
      [] OTHER -> BeforeSubDetector

(* C28: in one DetectProject call at most one language-specific            *)
(* sub-detector runs, the one of the returned language, so framework,      *)
(* package manager, build tool and version of the returned record are      *)
(* those this sub-detector writes and never those of another language's.   *)
C28_OneSubDetectorFillsTheRecord ==
    ProjectDetected => heuristic = BySubDetectorOf(heuristic.Language)

\* the fields of two sub-detectors in one record
C28_GoWithNodeFields ==
    /\ ProjectDetected
    /\ project.files = {"package.json", "go.mod"}
    /\ heuristic.Language = <<"g","o">>
    /\ heuristic.Dependencies = {"react"}
    /\ heuristic.BuildTool = <<"v","i","t","e">>

\* with a language from the extensions one sub-detector runs
C28_ByExtension ==
    (ProjectDetected /\ Leaders # {}
        /\ heuristic.Language \in {<<"j","a","v","a","s","c","r","i","p","t">>, <<"t","y","p","e","s","c","r","i","p","t">>, <<"p","y","t","h","o","n">>, <<"g","o">>, <<"j","a","v","a">>, <<"r","u","s","t">>,
                                   <<"p","h","p">>, <<"r","u","b","y">>, <<"c","s","h","a","r","p">>})
        => heuristic = BySubDetectorOf(heuristic.Language)

----------------------------------------------------------------------------
\* extension counting identified a language: the one of C17, or one of the tied
IdentifiedByExtensions == Leaders # {}

(* C29: the config-file fallback runs only when no language was identified *)
(* from the file extensions: a language identified by extension counting,  *)
(* also one without a sub-detector of its own (kotlin, c, cpp, swift,      *)
(* dart), is the language of the record DetectProject returns and is not   *)
(* replaced by one inferred from package.json, go.mod, requirements.txt,   *)
(* Cargo.toml or composer.json.                                            *)
C29_ExtensionLanguageIsKept ==
    (ProjectDetected /\ IdentifiedByExtensions) => heuristic.Language \in Leaders

\* what the code does: the languages with a sub-detector are kept
C29_LanguageWithSubDetectorIsKept ==
    (ProjectDetected /\ IdentifiedByExtensions
        /\ Leaders \subseteq {<<"j","a","v","a","s","c","r","i","p","t">>, <<"t","y","p","e","s","c","r","i","p","t">>, <<"p","y","t","h","o","n">>, <<"g","o">>, <<"j","a","v","a">>, <<"r","u","s","t">>,
                              <<"p","h","p">>, <<"r","u","b","y">>, <<"c","s","h","a","r","p">>})
        => heuristic.Language \in Leaders

\* a Kotlin project with a package.json comes back as javascript
C29_KotlinReplaced ==
    /\ ProjectDetected
    /\ Leaders = {<<"k","o","t","l","i","n">>}
    /\ "package.json" \in project.files
    /\ heuristic.Language = <<"j","a","v","a","s","c","r","i","p","t">>

\* a C project without a known config file keeps its language
C29_CKept ==
    /\ ProjectDetected
    /\ Leaders = {<<"c">>}
    /\ heuristic.Language = <<"c">>

----------------------------------------------------------------------------
\* the text of the entry, key or value, holds PASSWORD, SECRET or TOKEN in
\* some spelling
HoldsCredential(env) ==
    \E word \in {<<"p","a","s","s","w","o","r","d">>, <<"s","e","c","r","e","t">>, <<"t","o","k","e","n">>} : Contains(ToLower(env), word)

\* the two images are the same but for the content of entries that hold a
\* credential
DifferOnlyInCredentials(a, b) ==
    /\ [a EXCEPT !.Env = << >>] = [b EXCEPT !.Env = << >>]
    /\ Len(a.Env) = Len(b.Env)
    /\ \A i \in 1..Len(a.Env) :
        a.Env[i] = b.Env[i] \/ (HoldsCredential(a.Env[i]) /\ HoldsCredential(b.Env[i]))

\* both contexts of CompareImages are built
BothContextsBuilt == apc = "prompt"

\* the entries of an environment list that hold no credential, in order
WithoutCredentials(envVars) == SelectSeq(envVars, LAMBDA env : ~HoldsCredential(env))

\* the context lists exactly these entries under "Environment Variables:"
ListsEntries(context, entries) ==
    LET section == <<"\n","E","n","v","i","r","o","n","m","e","n","t"," ","V","a","r","i","a","b","l","e","s",":","\n">>
                    \o Join([i \in 1..Len(entries) |-> <<" "," ","-"," ">> \o entries[i] \o <<"\n">>], << >>)
        at == Index(context, section)
    IN  /\ at # 0
        /\ SubSeq(context, at + Len(section), at + Len(section) + 3) # <<" "," ","-"," ">>

\* the contexts list the entries without a credential, in env order
CredentialsNotListed ==
    BothContextsBuilt =>
        \A k \in 1..2 : ListsEntries(contexts[k], WithoutCredentials(analyzed[k].Env))

\* images that differ only in credentials have the same context (the images
\* compared are those whose exposed ports a loop enumerates in one order only)
CredentialsDoNotShow ==
    (BothContextsBuilt /\ Cardinality(analyzed[1].ExposedPorts) <= 1
        /\ DifferOnlyInCredentials(analyzed[1], analyzed[2]))
        => contexts[1] = contexts[2]

(* C30: the image context that the AIAnalyzer sends to the LLM never       *)
(* discloses an environment entry whose text, key or value, holds          *)
(* PASSWORD, SECRET or TOKEN in any spelling: such an entry appears        *)
(* nowhere in the context, the detected-language line included, so two     *)
(* images that differ only in the content of such entries have identical   *)
(* contexts; every other entry is listed, in env order.                    *)
C30_ContextDisclosesNoCredential == CredentialsDoNotShow /\ CredentialsNotListed

\* what the code does: the filter covers the "Environment Variables" section
C30_EnvironmentSectionFiltered == CredentialsNotListed

\* what the code does: the language line is written from the unfiltered list
C30_LanguageLineUnfiltered ==
    BothContextsBuilt =>
        \A k \in 1..2 :
            \A i \in 1..Len(analyzed[k].Env) :
                (HasPrefix(analyzed[k].Env[i], <<"P","Y","T","H","O","N","_","V","E","R","S","I","O","N","=">>)
                    /\ \A j \in 1..(i - 1) : ~HasPrefix(analyzed[k].Env[j], <<"N","O","D","E","_","V","E","R","S","I","O","N","=">>))
                    => Contains(contexts[k], <<"L","a","n","g","u","a","g","e",":"," ","P","y","t","h","o","n"," ">>
                                    \o TrimPrefix(analyzed[k].Env[i], <<"P","Y","T","H","O","N","_","V","E","R","S","I","O","N","=">>) \o <<"\n">>)

\* a version variable with a credential in its value is shown on the language line
C30_VersionWithSecret ==
    /\ BothContextsBuilt
    /\ analyzed[1].Env = <<<<"P","A","T","H","=","/","b","i","n">>, <<"P","Y","T","H","O","N","_","V","E","R","S","I","O","N","=","3","-","s","e","c","r","e","t">>>>
    /\ analyzed[2].Env = <<<<"P","A","T","H","=","/","b","i","n">>, <<"d","b","_","p","a","s","s","w","o","r","d","=","x">>>>
    /\ DifferOnlyInCredentials(analyzed[1], analyzed[2])
    /\ Contains(contexts[1], <<"3","-","s","e","c","r","e","t">>)
    /\ contexts[1] # contexts[2]

=============================================================================
